---- MODULE Spec2Model ----
(***************************************************************************)
(* Shape geometry core of KaliDraw: factories, hit testing, bounding       *)
(* boxes, resize handles and resizeShape, as implemented in                *)
(* src/helpers/shapeUtils, src/helpers/drawingTools.js and the text        *)
(* helpers.                                                                *)
(*                                                                         *)
(* Numbers.  The code works on JavaScript doubles.  The model is a fixed   *)
(* point model: every coordinate and length is an integer count of         *)
(* 1/Unit logical units (Unit = 20), which represents exactly the factors  *)
(* 1.2, 0.8, 0.5 and the halves box.width/2 the code uses.  Math.sqrt is   *)
(* the square root rounded down to 1/Unit.  Sums and differences are       *)
(* exact, so the model does not show the last-bit rounding of doubles.     *)
(* fontSize is an integer (the code rounds it with Math.round).            *)
(***************************************************************************)
EXTENDS Integers, Sequences, FiniteSets, TLC

VARIABLES shape, handle, point, op, steps,
          shapes, undoHistory, ctx, zoomLevel, canvasOffset

vars == <<shape, handle, point, op, steps,
          shapes, undoHistory, ctx, zoomLevel, canvasOffset>>

\* the state of the Canvas component that the geometry functions do not touch
canvasVars == <<shapes, undoHistory, ctx, zoomLevel, canvasOffset>>

(***************************************************************************)
(* Fixed point and bounds                                                  *)
(***************************************************************************)
\* 1 logical unit = Unit model units
Unit == 20

\* number of x and of y coordinates of the input grid of SpecApply
NumX == 5
NumY == 5
\* number of sample points of the drags of Spec
NumDragPoints == 3
\* number of sample texts typed into a text box
NumTexts == 2
\* number of resize / move applications Spec explores after the creation
MaxSteps == 2

\* the input grid, in logical units; the first NumX / NumY entries are used
XAt == <<0, 10, 13, 100, 150, 12>>
YAt == <<0, 10, 40, 50, 80, 13>>

Xs == {XAt[i] * Unit : i \in 1..NumX}
Ys == {YAt[i] * Unit : i \in 1..NumY}
PointSet == {[x |-> px, y |-> py] : px \in Xs, py \in Ys}

\* the sample points of Spec; the first NumDragPoints entries are used
DragPointAt == << [x |-> 0, y |-> 0], [x |-> 100, y |-> 50],
                  [x |-> 150, y |-> 80], [x |-> 10, y |-> 40] >>
DragPoints == {[x |-> DragPointAt[i].x * Unit, y |-> DragPointAt[i].y * Unit] :
                 i \in 1..NumDragPoints}

(***************************************************************************)
(* Arithmetic helpers (Math.max, Math.min, Math.abs, Math.sqrt)            *)
(***************************************************************************)
Max(a, b) == IF a >= b THEN a ELSE b
Min(a, b) == IF a <= b THEN a ELSE b
Abs(a) == IF a >= 0 THEN a ELSE -a

RECURSIVE GCD(_, _)
GCD(a, b) == IF b = 0 THEN a ELSE GCD(b, a % b)

RECURSIVE SqrtSearch(_, _, _)
SqrtSearch(n, lo, hi) ==
  IF lo >= hi THEN lo
  ELSE LET mid == (lo + hi + 1) \div 2
       IN IF mid * mid <= n THEN SqrtSearch(n, mid, hi)
                            ELSE SqrtSearch(n, lo, mid - 1)

\* Math.sqrt on fixed point numbers: the root of n (in Unit^2), rounded down
Sqrt(n) == SqrtSearch(n, 0, Min(n, 46340))

(***************************************************************************)
(* Shapes                                                                  *)
(***************************************************************************)
DRAWING_COLOR == "#f54a00"

Null == [type |-> "null"]

Has(s, f) == f \in DOMAIN s

(***************************************************************************)
(* Text metrics.  ctx.measureText is the browser's font engine; it is      *)
(* modelled as a width of half the font size per character.  A text is a   *)
(* sequence of characters, "\n" being the line break.                      *)
(***************************************************************************)
NL == "\n"
Chars(n) == [i \in 1..n |-> "a"]

\* sample texts the user types (never blank: confirmTextInput drops blank input)
TextAt == << Chars(3) \o <<NL>> \o Chars(1), Chars(12), Chars(1) \o <<NL, NL>> \o Chars(2), Chars(2) >>
Texts == {TextAt[i] : i \in 1..NumTexts}

RECURSIVE split(_)
\* String.prototype.split('\n')
split(t) ==
  IF \A i \in 1..Len(t) : t[i] # NL THEN <<t>>
  ELSE LET i == CHOOSE k \in 1..Len(t) : t[k] = NL /\ \A j \in 1..(k - 1) : t[j] # NL
       IN <<SubSeq(t, 1, i - 1)>> \o split(SubSeq(t, i + 1, Len(t)))

\* ctx.measureText(line).width at the given font size
measureText(line, fontSize) == (Len(line) * fontSize * Unit) \div 2

\* line || ' '
OrSpace(line) == IF Len(line) = 0 THEN <<" ">> ELSE line

RECURSIVE MaxOf(_)
MaxOf(S) == IF S = {} THEN 0
            ELSE LET e == CHOOSE v \in S : TRUE IN Max(e, MaxOf(S \ {e}))

\* the loop over the lines: the widest line, an empty line measured as ' '
maxLineWidth(text, fontSize) ==
  LET lines == split(text)
  IN MaxOf({measureText(OrSpace(lines[i]), fontSize) : i \in 1..Len(lines)})

\* fontSize * 1.2 (line height, horizontal padding) and fontSize * 0.8
Times12(fontSize) == (fontSize * 12 * Unit) \div 10
Times08(fontSize) == (fontSize * 8 * Unit) \div 10

\* calculateTextDimensions (TextGeometry): the box a text needs at fontSize
calculateTextDimensions(text, fontSize) ==
  [width  |-> Max(maxLineWidth(text, fontSize) + Times12(fontSize) * 2, 80 * Unit),
   height |-> Max(Times12(fontSize) * Len(split(text)) + Times08(fontSize) * 2, 40 * Unit)]

\* Math.round(n / d) for d > 0 (round half up)
RoundDiv(n, d) == (2 * n + d) \div (2 * d)

(***************************************************************************)
(* Factories                                                               *)
(***************************************************************************)
\* createRectangle without Math.abs and without the 1-unit minimum
createRectangleSigned(start, end) ==
  [type   |-> "rectangle",
   x      |-> Min(start.x, end.x),
   y      |-> Min(start.y, end.y),
   width  |-> end.x - start.x,
   height |-> end.y - start.y,
   color  |-> DRAWING_COLOR]

createRectangle(start, end) ==
  [type   |-> "rectangle",
   x      |-> Min(start.x, end.x),
   y      |-> Min(start.y, end.y),
   width  |-> Max(Abs(end.x - start.x), 1 * Unit),
   height |-> Max(Abs(end.y - start.y), 1 * Unit),
   color  |-> DRAWING_COLOR]

createCircle(start, end) ==
  LET dx == end.x - start.x
      dy == end.y - start.y
      radius == Sqrt(dx * dx + dy * dy)
      drawRadius == Max(radius, 1 * Unit)
  IN [type   |-> "circle",
      x      |-> start.x - drawRadius,
      y      |-> start.y - drawRadius,
      radius |-> drawRadius,
      color  |-> DRAWING_COLOR]

createPencil(points) ==
  [type |-> "pencil", points |-> points, color |-> DRAWING_COLOR]

\* handleMouseUp: a new shape without id gets a fresh one
AssignId(s) == IF Has(s, "id") THEN s ELSE [id |-> "s1"] @@ s

\* startTextInputAtPosition: the text box opened by a click with the text tool
startTextInputAtPosition(position) ==
  [x |-> position.x, y |-> position.y, width |-> 100 * Unit, height |-> 40 * Unit]

\* updateTextDimensions: the text box grows with the typed text
updateTextDimensions(textInput, prev) ==
  LET dimensions == calculateTextDimensions(textInput, 16)
      newWidth == Max(prev.width, dimensions.width + 20 * Unit)
      newHeight == Max(prev.height, dimensions.height + 10 * Unit)
  IN IF Abs(newWidth - prev.width) > 5 * Unit \/ Abs(newHeight - prev.height) > 5 * Unit
     THEN [prev EXCEPT !.width = newWidth, !.height = newHeight]
     ELSE prev

\* confirmTextInput (TextEditor.js), the branch that creates a new text shape
confirmTextInput(textInput, textPosition) ==
  LET dimensions == calculateTextDimensions(textInput, 16)
      containerWidth == Max(textPosition.width, 100 * Unit)
      containerHeight == Max(textPosition.height, 40 * Unit)
      \* min(widthRatio, heightRatio, 3) as a fraction n / d
      byWidth == containerWidth * dimensions.height <= containerHeight * dimensions.width
      n0 == IF byWidth THEN containerWidth ELSE containerHeight
      d0 == IF byWidth THEN dimensions.width ELSE dimensions.height
      n == IF n0 >= 3 * d0 THEN 3 ELSE n0
      d == IF n0 >= 3 * d0 THEN 1 ELSE d0
      \* Math.round(16 * (ratio * 0.8))
      initialFontSize == Max(16, Min(72, RoundDiv(16 * 8 * n, 10 * d)))
  IN [id            |-> "s1",
      type          |-> "text",
      text          |-> textInput,
      x             |-> textPosition.x,
      y             |-> textPosition.y,
      width         |-> Max(dimensions.width, textPosition.width),
      height        |-> Max(dimensions.height, textPosition.height),
      fontSize      |-> initialFontSize,
      color         |-> DRAWING_COLOR,
      align         |-> "center",
      verticalAlign |-> "middle",
      isEditing     |-> FALSE]

\* createText (drawingTools.js)
createText(text, x, y, width, height, fontSize, color) ==
  [type           |-> "text",
   text           |-> text,
   x              |-> x,
   y              |-> y,
   width          |-> width,
   height         |-> height,
   fontSize       |-> fontSize,
   color          |-> color,
   align          |-> "left",
   verticalAlign  |-> "top",
   textPadding    |-> [top |-> 5 * Unit, left |-> 10 * Unit],
   fontFamily     |-> "Arial",
   fontWeight     |-> "normal",
   fontStyle      |-> "normal",
   textDecoration |-> "none",
   id             |-> "s1"]

\* DirectTextInput.calculateTextDimensions at the default 16px
directTextDimensions(text) ==
  LET lines == split(text)
      contentWidth == MaxOf({100 * Unit} \cup {measureText(lines[i], 16) : i \in 1..Len(lines)})
  IN [width  |-> contentWidth + 10 * Unit + 10 * Unit,
      height |-> Max(Times12(16) * Len(lines) + 5 * Unit + 5 * Unit, 40 * Unit)]

\* the older confirmTextInput of the canvas component, which calls createText
confirmTextInputDirect(textInput, textPosition) ==
  LET dims == directTextDimensions(textInput)
  IN createText(textInput, textPosition.x, textPosition.y, dims.width, dims.height, 16, DRAWING_COLOR)

(***************************************************************************)
(* Hit testing and bounding boxes (ShapeDetection.js, ShapeGeometry.js)    *)
(***************************************************************************)
\* getCircleCenter that takes x, y for the centre
getCircleCenterTopLeft(circle) ==
  IF circle = Null \/ circle.type # "circle" THEN [x |-> 0, y |-> 0]
  ELSE [x |-> circle.x, y |-> circle.y]

getCircleCenter(circle) ==
  IF circle = Null \/ circle.type # "circle" THEN [x |-> 0, y |-> 0]
  ELSE IF Has(circle, "x") /\ Has(circle, "y") /\ Has(circle, "radius")
       THEN [x |-> circle.x + circle.radius, y |-> circle.y + circle.radius]
       ELSE [x |-> (circle.startX + circle.endX) \div 2,
             y |-> (circle.startY + circle.endY) \div 2]

\* shape.f || 0 that is 0 whatever the shape carries
FieldAlways0(s, f) == 0

\* shape.f || 0
FieldOr0(s, f) == IF Has(s, f) THEN s[f] ELSE 0

\* getShapeBoundingBox that takes a circle's x, y for its centre
getShapeBoundingBoxCentred(s) ==
  IF s = Null THEN Null
  ELSE IF s.type = "rectangle" \/ s.type = "text"
       THEN [x |-> s.x, y |-> s.y, width |-> s.width, height |-> s.height]
  ELSE IF s.type = "circle"
       THEN [x |-> s.x - s.radius, y |-> s.y - s.radius,
             width |-> s.radius * 2, height |-> s.radius * 2]
  ELSE [x |-> FieldOr0(s, "x"), y |-> FieldOr0(s, "y"),
        width |-> FieldOr0(s, "width"), height |-> FieldOr0(s, "height")]

getShapeBoundingBox(s) ==
  IF s = Null THEN Null
  ELSE IF s.type = "rectangle" \/ s.type = "text"
       THEN [x |-> s.x, y |-> s.y, width |-> s.width, height |-> s.height]
  ELSE IF s.type = "circle"
       THEN [x |-> s.x, y |-> s.y, width |-> s.radius * 2, height |-> s.radius * 2]
  ELSE [x |-> FieldOr0(s, "x"), y |-> FieldOr0(s, "y"),
        width |-> FieldOr0(s, "width"), height |-> FieldOr0(s, "height")]

\* InBox with the border left out
InBoxStrict(p, box) ==
  /\ p.x > box.x
  /\ p.x < box.x + box.width
  /\ p.y > box.y
  /\ p.y < box.y + box.height

\* the comparison of the rectangle and text branches of isPointInShape:
\* p is within the box, bounds included
InBox(p, box) ==
  /\ p.x >= box.x
  /\ p.x <= box.x + box.width
  /\ p.y >= box.y
  /\ p.y <= box.y + box.height

\* NearSegment without the clamp of the projection: the distance to the line
NearSegmentLine(p, p1, p2, tolerance) ==
  LET ex == p2.x - p1.x
      ey == p2.y - p1.y
      lengthSquared == ex * ex + ey * ey
      cross == Abs((p.x - p1.x) * ey - (p.y - p1.y) * ex)
      root == Sqrt(lengthSquared)
      rest == cross - tolerance * root
  IN IF lengthSquared = 0 THEN FALSE
     ELSE IF rest <= 0 THEN TRUE
     ELSE IF rest >= tolerance THEN FALSE
     ELSE 2 * tolerance * root * rest + rest * rest
            <= tolerance * tolerance * (lengthSquared - root * root)

\* the pencil branch for one segment p1 p2: is the distance from p to the
\* segment (projection parameter clamped to [0, 1]) at most tolerance?
\* distance <= tolerance is decided on the squares, without rounding.
NearSegment(p, p1, p2, tolerance) ==
  LET ex == p2.x - p1.x
      ey == p2.y - p1.y
      lengthSquared == ex * ex + ey * ey
      dot == (p.x - p1.x) * ex + (p.y - p1.y) * ey
      d1 == (p.x - p1.x) * (p.x - p1.x) + (p.y - p1.y) * (p.y - p1.y)
      d2 == (p.x - p2.x) * (p.x - p2.x) + (p.y - p2.y) * (p.y - p2.y)
      \* |cross| / sqrt(lengthSquared) is the distance to the foot of the perpendicular
      cross == Abs((p.x - p1.x) * ey - (p.y - p1.y) * ex)
      root == Sqrt(lengthSquared)
      rest == cross - tolerance * root
  IN IF lengthSquared = 0 THEN FALSE
     ELSE IF dot <= 0 THEN d1 <= tolerance * tolerance
     ELSE IF dot >= lengthSquared THEN d2 <= tolerance * tolerance
     ELSE IF rest <= 0 THEN TRUE
     ELSE IF rest >= tolerance THEN FALSE
     ELSE 2 * tolerance * root * rest + rest * rest
            <= tolerance * tolerance * (lengthSquared - root * root)

\* (1 / den) * n in IEEE arithmetic for den >= 0: the quotient (kept as its
\* numerator n over den) for den > 0; for den = 0, 1/0 is Infinity and
\* Infinity * n is Infinity, -Infinity or, for n = 0, NaN
TimesInverse(den, n) ==
  IF den # 0 THEN [kind |-> "finite", num |-> n]
  ELSE IF n > 0 THEN [kind |-> "infinite", num |-> 1]
  ELSE IF n < 0 THEN [kind |-> "infinite", num |-> -1]
  ELSE [kind |-> "NaN", num |-> 0]

\* 1 - s - t for s, t as TimesInverse(den, _) gives them
OneMinus(den, s, t) ==
  IF s.kind = "NaN" \/ t.kind = "NaN" THEN [kind |-> "NaN", num |-> 0]
  ELSE IF s.kind = "finite" /\ t.kind = "finite"
       THEN [kind |-> "finite", num |-> den - s.num - t.num]
  ELSE IF s.kind = "infinite" /\ t.kind = "infinite"
       THEN IF s.num = t.num THEN [kind |-> "infinite", num |-> -s.num]
            ELSE [kind |-> "NaN", num |-> 0]
  ELSE IF s.kind = "infinite" THEN [kind |-> "infinite", num |-> -s.num]
  ELSE [kind |-> "infinite", num |-> -t.num]

\* v >= 0 that holds for NaN
GeqZeroOrNaN(v) == v.kind = "NaN" \/ v.num >= 0

\* v >= 0: false for NaN
GeqZero(v) == v.kind # "NaN" /\ v.num >= 0

\* the triangle branch: s, t and u of the point in the triangle p1 p2 p3
barycentric(p, tri) ==
  LET p1 == [x |-> tri.startX, y |-> tri.startY]
      p2 == [x |-> tri.endX, y |-> tri.endY]
      p3 == [x |-> tri.startX - (tri.endX - tri.startX), y |-> tri.endY]
      \* 2 * area
      area2 == Abs(p1.x * (p2.y - p3.y) + p2.x * (p3.y - p1.y) + p3.x * (p1.y - p2.y))
      s == TimesInverse(area2, p1.y * p3.x - p1.x * p3.y
                                 + (p3.y - p1.y) * p.x + (p1.x - p3.x) * p.y)
      t == TimesInverse(area2, p1.x * p2.y - p1.y * p2.x
                                 + (p1.y - p2.y) * p.x + (p2.x - p1.x) * p.y)
  IN [area2 |-> area2, s |-> s, t |-> t, u |-> OneMinus(area2, s, t)]

isPointInShape(p, s) ==
  IF s = Null THEN FALSE
  ELSE IF s.type = "rectangle"
       THEN IF Has(s, "x") /\ Has(s, "y") /\ Has(s, "width") /\ Has(s, "height")
            THEN InBox(p, s)
            ELSE /\ p.x >= Min(s.startX, s.endX)
                 /\ p.x <= Max(s.startX, s.endX)
                 /\ p.y >= Min(s.startY, s.endY)
                 /\ p.y <= Max(s.startY, s.endY)
  ELSE IF s.type = "circle"
       THEN IF Has(s, "x") /\ Has(s, "y") /\ Has(s, "radius")
            THEN LET center == getCircleCenter(s)
                     dx == p.x - center.x
                     dy == p.y - center.y
                 IN \* distance <= radius, decided on the squares
                    dx * dx + dy * dy <= s.radius * s.radius
            ELSE LET dx2 == 2 * p.x - (s.startX + s.endX)
                     dy2 == 2 * p.y - (s.startY + s.endY)
                 IN dx2 * dx2 + dy2 * dy2
                      <= (s.endX - s.startX) * (s.endX - s.startX)
                         + (s.endY - s.startY) * (s.endY - s.startY)
  ELSE IF s.type = "triangle"
       THEN LET b == barycentric(p, s)
            IN GeqZero(b.s) /\ GeqZero(b.t) /\ GeqZero(b.u)
  ELSE IF s.type = "pencil" /\ Has(s, "points")
       THEN \E i \in 1..(Len(s.points) - 1) :
              NearSegment(p, s.points[i], s.points[i + 1], 5 * Unit)
  ELSE IF s.type = "text"
       THEN InBox(p, getShapeBoundingBox(s))
  ELSE FALSE

(***************************************************************************)
(* Resize handles (ShapeResize)                                            *)
(***************************************************************************)
HANDLE_SIZE == 12

\* the handle names, in the order getResizeHandle tests them
HandleOrder == <<"topLeft", "topCenter", "topRight", "middleLeft",
                 "middleRight", "bottomLeft", "bottomCenter", "bottomRight">>
Handles == {HandleOrder[i] : i \in 1..Len(HandleOrder)}

\* the hit-region centres of getResizeHandle, 5 units outside the box
hitHandles(box) ==
  << [name |-> "topLeft",      x |-> box.x - 5 * Unit,                  y |-> box.y - 5 * Unit],
     [name |-> "topCenter",    x |-> box.x + box.width \div 2,          y |-> box.y - 5 * Unit],
     [name |-> "topRight",     x |-> box.x + box.width + 5 * Unit,      y |-> box.y - 5 * Unit],
     [name |-> "middleLeft",   x |-> box.x - 5 * Unit,                  y |-> box.y + box.height \div 2],
     [name |-> "middleRight",  x |-> box.x + box.width + 5 * Unit,      y |-> box.y + box.height \div 2],
     [name |-> "bottomLeft",   x |-> box.x - 5 * Unit,                  y |-> box.y + box.height + 5 * Unit],
     [name |-> "bottomCenter", x |-> box.x + box.width \div 2,          y |-> box.y + box.height + 5 * Unit],
     [name |-> "bottomRight",  x |-> box.x + box.width + 5 * Unit,      y |-> box.y + box.height + 5 * Unit] >>

\* hitsHandle that takes HANDLE_SIZE for the half width of the region
hitsHandleFullSize(p, h) ==
  /\ Abs(p.x - h.x) <= HANDLE_SIZE * Unit
  /\ Abs(p.y - h.y) <= HANDLE_SIZE * Unit

\* the test of one hit region
hitsHandle(p, h) ==
  /\ Abs(p.x - h.x) <= (HANDLE_SIZE * Unit) \div 2
  /\ Abs(p.y - h.y) <= (HANDLE_SIZE * Unit) \div 2

\* getResizeHandle that returns the last handle whose region contains p
getResizeHandleLast(p, s) ==
  IF s = Null THEN "null"
  ELSE LET handles == hitHandles(getShapeBoundingBox(s))
           hit == {i \in 1..Len(handles) : hitsHandle(p, handles[i])}
       IN IF hit = {} THEN "null"
          ELSE handles[CHOOSE i \in hit : \A j \in hit : i >= j].name

getResizeHandle(p, s) ==
  IF s = Null THEN "null"
  ELSE LET handles == hitHandles(getShapeBoundingBox(s))
           hit == {i \in 1..Len(handles) : hitsHandle(p, handles[i])}
       IN IF hit = {} THEN "null"
          ELSE handles[CHOOSE i \in hit : \A j \in hit : i <= j].name

\* getShapeResizeHandles that lists the handles in the order getResizeHandle
\* tests them
getShapeResizeHandlesHitOrder(s) ==
  IF s = Null THEN <<>>
  ELSE LET box == getShapeBoundingBox(s)
       IN << [name |-> "topLeft",      x |-> box.x,                    y |-> box.y],
             [name |-> "topCenter",    x |-> box.x + box.width \div 2, y |-> box.y],
             [name |-> "topRight",     x |-> box.x + box.width,        y |-> box.y],
             [name |-> "middleLeft",   x |-> box.x,                    y |-> box.y + box.height \div 2],
             [name |-> "middleRight",  x |-> box.x + box.width,        y |-> box.y + box.height \div 2],
             [name |-> "bottomLeft",   x |-> box.x,                    y |-> box.y + box.height],
             [name |-> "bottomCenter", x |-> box.x + box.width \div 2, y |-> box.y + box.height],
             [name |-> "bottomRight",  x |-> box.x + box.width,        y |-> box.y + box.height] >>

getShapeResizeHandles(s) ==
  IF s = Null THEN <<>>
  ELSE LET box == getShapeBoundingBox(s)
       IN << [name |-> "topLeft",      x |-> box.x,                    y |-> box.y],
             [name |-> "topRight",     x |-> box.x + box.width,        y |-> box.y],
             [name |-> "bottomLeft",   x |-> box.x,                    y |-> box.y + box.height],
             [name |-> "bottomRight",  x |-> box.x + box.width,        y |-> box.y + box.height],
             [name |-> "topCenter",    x |-> box.x + box.width \div 2, y |-> box.y],
             [name |-> "middleRight",  x |-> box.x + box.width,        y |-> box.y + box.height \div 2],
             [name |-> "bottomCenter", x |-> box.x + box.width \div 2, y |-> box.y + box.height],
             [name |-> "middleLeft",   x |-> box.x,                    y |-> box.y + box.height \div 2] >>

(***************************************************************************)
(* resizeShape (ShapeResize)                                               *)
(***************************************************************************)
\* MIN_SIZE with the text default of 20 for every shape
MIN_SIZE_Twenty(s) ==
  IF s.type = "text"
  THEN Max(20 * Unit, IF Has(s, "text") /\ Len(s.text) # 0 THEN Len(s.text) * 2 * Unit
                      ELSE 20 * Unit)
  ELSE 20 * Unit

\* MIN_SIZE with the 1-unit minimum of createRectangle
MIN_SIZE_One(s) ==
  IF s.type = "text"
  THEN Max(20 * Unit, IF Has(s, "text") /\ Len(s.text) # 0 THEN Len(s.text) * 2 * Unit
                      ELSE 20 * Unit)
  ELSE 1 * Unit

\* shape.text?.length * 2 || 20, at least 20, for a text; 10 for a rectangle
MIN_SIZE(s) ==
  IF s.type = "text"
  THEN Max(20 * Unit, IF Has(s, "text") /\ Len(s.text) # 0 THEN Len(s.text) * 2 * Unit
                      ELSE 20 * Unit)
  ELSE 10 * Unit

\* the switch over the handle: the dragged edges follow the point, the
\* others are taken from the current shape
resizeEdges(s, h, p, minSize) ==
  LET fixedRight == s.x + s.width
      fixedBottom == s.y + s.height
      fixedLeft == s.x
      fixedTop == s.y
      leftX == Min(p.x, fixedRight - minSize)
      topY == Min(p.y, fixedBottom - minSize)
  IN CASE h = "topLeft" ->
            [s EXCEPT !.x = leftX, !.y = topY,
                      !.width = fixedRight - leftX, !.height = fixedBottom - topY]
       [] h = "topCenter" ->
            [s EXCEPT !.y = topY, !.height = fixedBottom - topY]
       [] h = "topRight" ->
            [s EXCEPT !.y = topY, !.width = Max(p.x - fixedLeft, minSize),
                      !.height = fixedBottom - topY]
       [] h = "middleLeft" ->
            [s EXCEPT !.x = leftX, !.width = fixedRight - leftX]
       [] h = "middleRight" ->
            [s EXCEPT !.width = Max(p.x - fixedLeft, minSize)]
       [] h = "bottomLeft" ->
            [s EXCEPT !.x = leftX, !.width = fixedRight - leftX,
                      !.height = Max(p.y - fixedTop, minSize)]
       [] h = "bottomCenter" ->
            [s EXCEPT !.height = Max(p.y - fixedTop, minSize)]
       [] h = "bottomRight" ->
            [s EXCEPT !.width = Max(p.x - fixedLeft, minSize),
                      !.height = Max(p.y - fixedTop, minSize)]
       [] OTHER -> s

\* roundScaled with Math.floor for Math.round
roundScaledFloor(base, w1, w0, h1, h0) ==
  LET gw == GCD(w1, w0)
      gh == GCD(h1, h0)
      A == base * (w1 \div gw)
      dA == 4 * (w0 \div gw)
      B == base * (h1 \div gh)
      dB == 4 * (h0 \div gh)
      half == base % 2
  IN base \div 2 + A \div dA + B \div dB
       + (half * dA * dB + 2 * (A % dA) * dB + 2 * (B % dB) * dA) \div (2 * dA * dB)

\* Math.round(base * (0.5 + 0.5 * (w1 / w0 + h1 / h0) / 2)), computed exactly:
\* the value plus 1/2 is (base + 1) / 2 + base * w1 / (4 * w0) + base * h1 / (4 * h0)
roundScaled(base, w1, w0, h1, h0) ==
  LET gw == GCD(w1, w0)
      gh == GCD(h1, h0)
      A == base * (w1 \div gw)
      dA == 4 * (w0 \div gw)
      B == base * (h1 \div gh)
      dB == 4 * (h0 \div gh)
      half == (base + 1) % 2
  IN (base + 1) \div 2 + A \div dA + B \div dB
       + (half * dA * dB + 2 * (A % dA) * dB + 2 * (B % dB) * dA) \div (2 * dA * dB)

\* the new font size of a text whose box went from original to resized
scaledFontSize(s, resized) ==
  LET baseFontSize == IF Has(s, "fontSize") /\ s.fontSize # 0 THEN s.fontSize ELSE 16
  IN Max(8, Min(200, roundScaled(baseFontSize, resized.width, s.width,
                                 resized.height, s.height)))

\* the smallest box that holds the text at the given font size
minWidth(s, fontSize) ==
  Max(maxLineWidth(s.text, fontSize) + Times12(fontSize) * 2, 80 * Unit)

minHeight(s, fontSize) ==
  Max(Times12(fontSize) * Len(split(s.text)) + Times08(fontSize) * 2, 40 * Unit)

\* resizeText that measures the minimum box at the font size before the resize
resizeTextOldFont(s, resized) ==
  LET newFontSize == scaledFontSize(s, resized)
  IN [fontSize      |-> newFontSize,
      width         |-> Max(resized.width, minWidth(s, s.fontSize)),
      height        |-> Max(resized.height, minHeight(s, s.fontSize)),
      align         |-> IF Has(s, "align") THEN s.align ELSE "center",
      verticalAlign |-> IF Has(s, "verticalAlign") THEN s.verticalAlign ELSE "middle"]
     @@ resized

\* the text part of resizeShape: font size, minimum box, alignment
resizeText(s, resized) ==
  LET newFontSize == scaledFontSize(s, resized)
  IN [fontSize      |-> newFontSize,
      width         |-> Max(resized.width, minWidth(s, newFontSize)),
      height        |-> Max(resized.height, minHeight(s, newFontSize)),
      align         |-> IF Has(s, "align") THEN s.align ELSE "center",
      verticalAlign |-> IF Has(s, "verticalAlign") THEN s.verticalAlign ELSE "middle"]
     @@ resized

\* resizeCircle with the top-left corner left where it was
resizeCircleKeepTopLeft(s, p) ==
  LET center == getCircleCenter(s)
      dx == p.x - center.x
      dy == p.y - center.y
  IN [s EXCEPT !.radius = Max(Sqrt(dx * dx + dy * dy), 1 * Unit)]

\* resizeCircle without the minimum radius
resizeCircleNoMinimum(s, p) ==
  LET center == getCircleCenter(s)
      dx == p.x - center.x
      dy == p.y - center.y
      newRadius == Sqrt(dx * dx + dy * dy)
  IN [s EXCEPT !.radius = newRadius,
               !.x = center.x - newRadius,
               !.y = center.y - newRadius]

\* resizeCircle with the minimum of rectangles, MIN_SIZE = 10, as the least radius
resizeCircleMinimumTen(s, p) ==
  LET center == getCircleCenter(s)
      dx == p.x - center.x
      dy == p.y - center.y
      newRadius == Sqrt(dx * dx + dy * dy)
      finalRadius == Max(newRadius, 10 * Unit)
  IN [s EXCEPT !.radius = finalRadius,
               !.x = center.x - finalRadius,
               !.y = center.y - finalRadius]

\* the circle part of resizeShape: the radius is the distance from the
\* centre to the point, the handle is not looked at
resizeCircle(s, p) ==
  LET center == getCircleCenter(s)
      dx == p.x - center.x
      dy == p.y - center.y
      newRadius == Sqrt(dx * dx + dy * dy)
      finalRadius == Max(newRadius, 1 * Unit)
  IN [s EXCEPT !.radius = finalRadius,
               !.x = center.x - finalRadius,
               !.y = center.y - finalRadius]

\* resizeShape whose left handles move x but leave the width as it was
resizeShapeStaleWidth(s, h, p) ==
  IF s = Null \/ h = "null" THEN s
  ELSE IF s.type = "rectangle" \/ s.type = "text"
       THEN LET r == resizeEdges(s, h, p, MIN_SIZE(s))
                q == IF h \in {"topLeft", "middleLeft", "bottomLeft"}
                     THEN [r EXCEPT !.width = s.width] ELSE r
            IN IF s.type = "text" THEN resizeText(s, q) ELSE q
  ELSE IF s.type = "circle" THEN resizeCircle(s, p)
  ELSE s

resizeShape(s, h, p) ==
  IF s = Null \/ h = "null" THEN s
  ELSE IF s.type = "rectangle" THEN resizeEdges(s, h, p, MIN_SIZE(s))
  ELSE IF s.type = "text" THEN resizeText(s, resizeEdges(s, h, p, MIN_SIZE(s)))
  ELSE IF s.type = "circle" /\ Has(s, "x") /\ Has(s, "y") /\ Has(s, "radius")
       THEN resizeCircle(s, p)
  ELSE s

\* resizeShapeOnHeap without the copy: resized is the shape object itself
resizeShapeInPlace(heap, ref, h, p) ==
  [heap |-> [heap EXCEPT ![ref] = resizeShape(heap[ref], h, p)], ref |-> ref]

\* resizeShape on objects: heap maps references to objects, ref is the shape
\* argument. `const resized = { ...shape }` is a new object, every assignment
\* goes to it and it is returned; the early return gives back the argument.
resizeShapeOnHeap(heap, ref, h, p) ==
  IF heap[ref] = Null \/ h = "null"
  THEN [heap |-> heap, ref |-> ref]
  ELSE [heap |-> heap @@ ("resized" :> resizeShape(heap[ref], h, p)), ref |-> "resized"]

(***************************************************************************)
(* Moving a shape (handleMouseMove, the move branch)                       *)
(***************************************************************************)
\* the move branch adding the drag vector to the current position of the
\* shape, not to the position of the drag-start snapshot
moveShapeFromCurrent(selectedShape, original, dragStart, p) ==
  LET dx == p.x - dragStart.x
      dy == p.y - dragStart.y
  IN IF selectedShape.type = "pencil"
     THEN [selectedShape EXCEPT
             !.points = [i \in 1..Len(selectedShape.points) |->
                           [x |-> selectedShape.points[i].x + dx,
                            y |-> selectedShape.points[i].y + dy]]]
     ELSE [selectedShape EXCEPT !.x = selectedShape.x + dx, !.y = selectedShape.y + dy]

moveShape(selectedShape, original, dragStart, p) ==
  LET dx == p.x - dragStart.x
      dy == p.y - dragStart.y
  IN IF selectedShape.type = "pencil"
     THEN [selectedShape EXCEPT
             !.points = [i \in 1..Len(original.points) |->
                           [x |-> original.points[i].x + dx,
                            y |-> original.points[i].y + dy]]]
     ELSE [selectedShape EXCEPT !.x = original.x + dx, !.y = original.y + dy]

(***************************************************************************)
(* The shapes the factories produce from a set of input points             *)
(***************************************************************************)
\* the point sequences of a stroke: handleMouseUp passes the collected
\* points and the last one (two points for a click or a straight drag, three
\* with a mouse-move in between); handlePencilDrawing makes the empty stroke
\* of fewer than two points, and createPencil takes any sequence
Strokes(P) ==
  {<<>>}
  \cup {<<a>> : a \in P}
  \cup {<<a, b>> : a \in P, b \in P}
  \cup {<<a, b, c>> : a \in DragPoints, b \in P, c \in DragPoints}

\* a text box is opened by a click, the typed text confirmed by either
\* version of confirmTextInput
ShapesFrom(P) ==
  {AssignId(createRectangle(a, b)) : a \in P, b \in P}
  \cup {AssignId(createCircle(a, b)) : a \in P, b \in P}
  \cup {AssignId(createPencil(pts)) : pts \in Strokes(P)}
  \cup {confirmTextInput(t, updateTextDimensions(t, startTextInputAtPosition(a))) :
          t \in Texts, a \in P}
  \cup {confirmTextInputDirect(t, startTextInputAtPosition(a)) : t \in Texts, a \in P}

(***************************************************************************)
(* The state of the Canvas component (Canvas.jsx), handed to the event     *)
(* handlers of canvasEvents.js as ctx.  In SpecCanvas the variable shape   *)
(* is ctx.selectedShape (Null for null), handle is ctx.resizeHandle        *)
(* ("null" for null) and point is ctx.cursorPosition; shapes, undoHistory, *)
(* zoomLevel and canvasOffset are the state of these names, and the record *)
(* ctx holds the rest: the active tool, the drawing and drag state, the    *)
(* refs of originalRefs and whether the mouse button is down.              *)
(*                                                                         *)
(* canvasOffset and the quotients of the zoom arithmetic are exact         *)
(* fractions [num, den] of a pixel.                                        *)
(***************************************************************************)
RatNorm(n, d) ==
  LET g == GCD(Abs(n), Abs(d))
      sgn == IF d < 0 THEN -1 ELSE 1
  IN [num |-> (sgn * n) \div g, den |-> (sgn * d) \div g]

RatAdd(a, b) ==
  LET g == GCD(a.den, b.den)
      l == (a.den \div g) * b.den
  IN RatNorm(a.num * (l \div a.den) + b.num * (l \div b.den), l)

RatSub(a, b) == RatAdd(a, [num |-> -b.num, den |-> b.den])

RatMul(a, b) ==
  LET u == RatNorm(a.num, b.den)
      v == RatNorm(b.num, a.den)
  IN RatNorm(u.num * v.num, u.den * v.den)

\* useState({ x: 0, y: 0 })
ZeroOffset == [x |-> RatNorm(0, 1), y |-> RatNorm(0, 1)]

\* the drawing and drag state and the refs before the first event;
\* originalShapePos.current.resizing is kept as the field resizing
CtxIdle ==
  [activeTool |-> "select", pressed |-> FALSE,
   isDrawing |-> FALSE, startPoint |-> Null, currentPoints |-> <<>>,
   isDragging |-> FALSE, isMovingShape |-> FALSE, dragStart |-> [x |-> 0, y |-> 0],
   originalShapePos |-> Null, resizing |-> FALSE,
   originalCanvasOffset |-> Null, resizeStartPoint |-> Null]

\* the canvas of the specifications that call the geometry functions directly
CanvasIdle ==
  /\ shapes = <<>>
  /\ undoHistory = <<>>
  /\ ctx = CtxIdle
  /\ zoomLevel = Unit
  /\ canvasOffset = ZeroOffset

(***************************************************************************)
(* Spec: a shape is created, then resized and moved MaxSteps times         *)
(***************************************************************************)
Init ==
  /\ shape \in ShapesFrom(DragPoints)
  /\ handle = "null"
  /\ point = [x |-> 0, y |-> 0]
  /\ op = "create"
  /\ steps = 0
  /\ CanvasIdle

\* one mouse-move of a resize drag: resizeShape with handle h and point p
Resize(h, p) ==
  /\ steps < MaxSteps
  /\ shape' = resizeShape(shape, h, p)
  /\ handle' = h
  /\ point' = p
  /\ op' = "resize"
  /\ steps' = steps + 1
  /\ UNCHANGED canvasVars

\* one mouse-move of a move drag that started with a click on the shape
Move(dragStart, p) ==
  /\ steps < MaxSteps
  /\ isPointInShape(dragStart, shape)
  /\ shape' = moveShape(shape, shape, dragStart, p)
  /\ handle' = "null"
  /\ point' = p
  /\ op' = "move"
  /\ steps' = steps + 1
  /\ UNCHANGED canvasVars

Next ==
  \/ \E h \in Handles, p \in DragPoints : Resize(h, p)
  \/ \E d \in DragPoints, p \in DragPoints : Move(d, p)

Spec == Init /\ [][Next]_vars

(***************************************************************************)
(* SpecApply: resizeShape applied once to a shape drawn on the input grid  *)
(***************************************************************************)
InitApply ==
  /\ shape \in ShapesFrom(PointSet)
  /\ handle = "null"
  /\ point = [x |-> 0, y |-> 0]
  /\ op = "create"
  /\ steps = 0
  /\ CanvasIdle

ResizeOnce(h, p) ==
  /\ op = "create"
  /\ shape' = resizeShape(shape, h, p)
  /\ handle' = h
  /\ point' = p
  /\ op' = "resize"
  /\ steps' = steps + 1
  /\ UNCHANGED canvasVars

NextApply == \E h \in Handles, p \in PointSet : ResizeOnce(h, p)

SpecApply == InitApply /\ [][NextApply]_vars

(***************************************************************************)
(* SpecAny: the functions called once with a shape value from a bounded    *)
(* set: null, an object of a type the functions do not know, a drawn text, *)
(* a text at either end of the font range                                  *)
(***************************************************************************)
\* a field that is absent or has one of the values vs
Optional(f, vs) == {<<>>} \cup {[g \in {f} |-> v] : v \in vs}

UnknownShapes ==
  {[type |-> t] @@ fx @@ fy @@ fw @@ fh :
     t \in {"ellipse", "line"},
     fx \in Optional("x", {0, 10 * Unit}),
     fy \in Optional("y", {40 * Unit}),
     fw \in Optional("width", {90 * Unit}),
     fh \in Optional("height", {10 * Unit})}

\* a text of font size f in its minimum box, the bottom right corner at (0,0):
\* what resizes leave of a text shrunk, or enlarged, again and again
TextAtFont(f) ==
  LET t == createText(Chars(2), 0, 0, 0, 0, f, DRAWING_COLOR)
  IN [t EXCEPT !.x = -minWidth(t, f), !.y = -minHeight(t, f),
               !.width = minWidth(t, f), !.height = minHeight(t, f)]

TextShapes ==
  {s \in ShapesFrom(DragPoints) : s.type = "text"} \cup {TextAtFont(8), TextAtFont(190)}

\* the triangles of the older drawing code, kept as the two drag points
TriangleShapes ==
  {[type |-> "triangle", startX |-> a.x, startY |-> a.y, endX |-> b.x, endY |-> b.y,
    color |-> DRAWING_COLOR, id |-> "s1"] : a \in DragPoints, b \in PointSet}

\* strokes with a point repeated: a click, or the mouse at rest during a drag
RepeatedPointStrokes ==
  {AssignId(createPencil(<<a, a>>)) : a \in DragPoints}
  \cup {AssignId(createPencil(<<a, a, b>>)) : a \in DragPoints, b \in DragPoints}

InitAny ==
  /\ shape \in {Null} \cup UnknownShapes \cup TextShapes \cup TriangleShapes
                \cup RepeatedPointStrokes
  /\ handle = "null"
  /\ point = [x |-> 0, y |-> 0]
  /\ op = "create"
  /\ steps = 0
  /\ CanvasIdle

\* a mouse-down at p: the hit test and the handle test are made at p
Probe(p) ==
  /\ op = "create"
  /\ point' = p
  /\ op' = "probe"
  /\ UNCHANGED <<shape, handle, steps>>
  /\ UNCHANGED canvasVars

NextAny ==
  \/ \E p \in PointSet : Probe(p)
  \/ \E h \in Handles, p \in PointSet : ResizeOnce(h, p)

SpecAny == InitAny /\ [][NextAny]_vars

(***************************************************************************)
(* SpecHit: a mouse-down near the handles of a shape drawn on the grid     *)
(***************************************************************************)
\* the mouse points: the centres of the hit regions, points on and just
\* outside their borders, and the drag points
HandleProbes(s) ==
  LET handles == hitHandles(getShapeBoundingBox(s))
  IN DragPoints
     \cup UNION {{[x |-> handles[i].x + d[1] * Unit, y |-> handles[i].y + d[2] * Unit] :
                    i \in 1..Len(handles)} :
                 d \in {<<0, 0>>, <<6, 6>>, <<-6, 0>>, <<7, 0>>, <<0, -7>>}}

NextHit == \E p \in HandleProbes(shape) : Probe(p)

SpecHit == InitApply /\ [][NextHit]_vars

(***************************************************************************)
(* SpecCanvas: the event handlers of canvasEvents.js on a canvas with      *)
(* shapes.  The handlers are called with the ctx the component builds from *)
(* its state; a mouse-down is followed by mouse-moves and one mouse-up.    *)
(* The text tool is not used, the zoom level stays 1, and the mouse-moves  *)
(* with no button down, which only set cursorPosition, are left out.  The  *)
(* wrappers and effects Canvas.jsx puts around the handlers (the text and  *)
(* deselection checks, the automatic selection) are outside the model.     *)
(***************************************************************************)
\* the mouse positions in CSS pixels, relative to the canvas
CssPoints == {[x |-> DragPointAt[i].x, y |-> DragPointAt[i].y] : i \in 1..NumDragPoints}

\* getCanvasCoordinates: cssX / zoomLevel - canvasOffset.x, in pixels
getCanvasCoordinates(css, zoom, offset) ==
  [x |-> RatSub(RatNorm(css.x * Unit, zoom), offset.x),
   y |-> RatSub(RatNorm(css.y * Unit, zoom), offset.y)]

\* the logical point of a mouse event as a fixed point number
CanvasPoint(css) ==
  LET c == getCanvasCoordinates(css, zoomLevel, canvasOffset)
  IN [x |-> (c.x.num * Unit) \div c.x.den, y |-> (c.y.num * Unit) \div c.y.den]

\* the least element of a nonempty set of numbers
Least(S) == CHOOSE i \in S : \A j \in S : i <= j

\* the loop of handleMouseDown over getShapeResizeHandles(selectedShape): the
\* name of the first handle within 6 of the point, "null" if there is none
handleUnderPoint(p, s) ==
  LET handles == getShapeResizeHandles(s)
      hit == {i \in 1..Len(handles) : /\ Abs(p.x - handles[i].x) <= 6 * Unit
                                      /\ Abs(p.y - handles[i].y) <= 6 * Unit}
  IN IF hit = {} THEN "null" ELSE handles[Least(hit)].name

\* shapes.find(sh => isPointInShape(point, sh)): the first shape of the
\* sequence that contains the point, Null if there is none
findShapeUnderPoint(p, shs) ==
  LET hit == {i \in 1..Len(shs) : isPointInShape(p, shs[i])}
  IN IF hit = {} THEN Null ELSE shs[Least(hit)]

\* prev.map(s => (s.id === selectedShape.id ? updated : s))
replaceById(shs, id, updated) ==
  [i \in 1..Len(shs) |-> IF shs[i].id = id THEN updated ELSE shs[i]]

RECURSIVE removeById(_, _)
\* prev.filter(shape => shape.id !== selectedShape.id)
removeById(shs, id) ==
  IF shs = <<>> THEN <<>>
  ELSE IF Head(shs).id = id THEN removeById(Tail(shs), id)
  ELSE <<Head(shs)>> \o removeById(Tail(shs), id)

\* Date.now() + Math.random()...: an id no shape has yet
freshId == "n" \o ToString(steps + 1)

\* the number of events SpecCanvas explores
MaxEvents == MaxSteps + 4

\* a click on a tool of the Navbar
SelectTool(t) ==
  /\ steps < MaxEvents
  /\ ~ctx.pressed
  /\ ctx.activeTool # t
  /\ ctx' = [ctx EXCEPT !.activeTool = t]
  /\ op' = "tool"
  /\ steps' = steps + 1
  /\ UNCHANGED <<shape, handle, point, shapes, undoHistory, zoomLevel, canvasOffset>>

\* handleMouseDown
MouseDown(css) ==
  LET p == CanvasPoint(css)
      h == handleUnderPoint(p, shape)
      clickedShape == findShapeUnderPoint(p, shapes)
      down == [ctx EXCEPT !.pressed = TRUE]
      select == [down EXCEPT !.originalCanvasOffset = canvasOffset,
                             !.resizeStartPoint = p]
  IN /\ steps < MaxEvents
     /\ ~ctx.pressed
     /\ point' = p
     /\ op' = "mousedown"
     /\ steps' = steps + 1
     /\ IF ctx.activeTool = "select"
        THEN IF shape # Null /\ h # "null"
             THEN \* a handle of the selected shape: a resize drag starts
                  /\ handle' = h
                  /\ ctx' = [select EXCEPT !.isDragging = TRUE,
                                           !.isMovingShape = FALSE,
                                           !.originalShapePos = shape,
                                           !.resizing = FALSE]
                  /\ shape' = shape
             ELSE IF clickedShape # Null
             THEN \* a shape: it is selected and a move drag starts
                  /\ shape' = IF shape # Null /\ shape.id = clickedShape.id
                              THEN shape ELSE clickedShape
                  /\ ctx' = [select EXCEPT !.originalShapePos = clickedShape,
                                           !.resizing = FALSE,
                                           !.isMovingShape = TRUE,
                                           !.isDragging = TRUE,
                                           !.dragStart = p]
                  /\ handle' = handle
             ELSE \* the empty canvas: a pan starts
                  /\ ctx' = [select EXCEPT !.isMovingShape = FALSE,
                                           !.isDragging = TRUE,
                                           !.dragStart = p]
                  /\ UNCHANGED <<shape, handle>>
        ELSE \* a drawing tool: the selection is cleared and a drawing starts
             /\ shape' = Null
             /\ ctx' = [down EXCEPT !.isMovingShape = FALSE,
                                    !.isDrawing = TRUE,
                                    !.startPoint = p,
                                    !.currentPoints =
                                       IF ctx.activeTool = "pencil" THEN <<p>> ELSE @]
             /\ handle' = handle
     /\ UNCHANGED <<shapes, undoHistory, zoomLevel, canvasOffset>>

\* the resize branch of handleMouseMove pushes a snapshot at every move
snapshotAtEveryMove(c) == TRUE

\* if (!originalRefs.originalShapePos.current.resizing): the first move of a
\* resize drag
snapshotDue(c) == ~c.resizing

\* handleMouseMove with the button down
MouseMove(css) ==
  LET p == CanvasPoint(css)
      dragging == ctx.activeTool = "select" /\ ctx.isDragging
  IN /\ steps < MaxEvents
     /\ ctx.pressed
     /\ point' = p
     /\ op' = "mousemove"
     /\ steps' = steps + 1
     /\ IF dragging /\ shape # Null /\ handle # "null" /\ ctx.resizeStartPoint # Null
        THEN \* resize
             LET updated == resizeShape(shape, handle, p)
             IN /\ undoHistory' = IF snapshotDue(ctx) THEN Append(undoHistory, shapes)
                                  ELSE undoHistory
                /\ ctx' = [ctx EXCEPT !.resizing = TRUE]
                /\ shapes' = replaceById(shapes, shape.id, updated)
                /\ shape' = updated
                /\ UNCHANGED <<handle, zoomLevel, canvasOffset>>
        ELSE IF dragging /\ ctx.isMovingShape /\ shape # Null
        THEN \* move
             IF ctx.originalShapePos = Null
             THEN UNCHANGED <<shape, handle, shapes, undoHistory, ctx, zoomLevel, canvasOffset>>
             ELSE LET updated == moveShape(shape, ctx.originalShapePos, ctx.dragStart, p)
                  IN /\ shapes' = replaceById(shapes, shape.id, updated)
                     /\ shape' = updated
                     /\ UNCHANGED <<handle, undoHistory, ctx, zoomLevel, canvasOffset>>
        ELSE IF dragging /\ ~ctx.isMovingShape
        THEN \* pan
             /\ canvasOffset' =
                  [x |-> RatAdd(ctx.originalCanvasOffset.x, RatNorm(p.x - ctx.dragStart.x, Unit)),
                   y |-> RatAdd(ctx.originalCanvasOffset.y, RatNorm(p.y - ctx.dragStart.y, Unit))]
             /\ UNCHANGED <<shape, handle, shapes, undoHistory, ctx, zoomLevel>>
        ELSE IF ctx.isDrawing /\ ctx.startPoint # Null /\ ctx.activeTool = "pencil"
        THEN \* the preview of a stroke collects the point
             /\ ctx' = [ctx EXCEPT !.currentPoints = Append(@, p)]
             /\ UNCHANGED <<shape, handle, shapes, undoHistory, zoomLevel, canvasOffset>>
        ELSE UNCHANGED <<shape, handle, shapes, undoHistory, ctx, zoomLevel, canvasOffset>>

\* handleMouseUp
MouseUp(css) ==
  LET p == CanvasPoint(css)
      up == [ctx EXCEPT !.pressed = FALSE, !.isDrawing = FALSE, !.isDragging = FALSE,
                        !.isMovingShape = FALSE]
      drawn == IF ctx.activeTool = "pencil" THEN createPencil(ctx.currentPoints \o <<p>>)
               ELSE IF ctx.activeTool = "rectangle" /\ ctx.startPoint # Null
                    THEN createRectangle(ctx.startPoint, p)
               ELSE IF ctx.activeTool = "circle" /\ ctx.startPoint # Null
                    THEN createCircle(ctx.startPoint, p)
               ELSE Null
      newShape == IF drawn = Null \/ Has(drawn, "id") THEN drawn
                  ELSE [id |-> freshId] @@ drawn
  IN /\ steps < MaxEvents
     /\ ctx.pressed
     /\ point' = point
     /\ op' = "mouseup"
     /\ steps' = steps + 1
     /\ handle' = "null"
     /\ IF ctx.activeTool = "pencil" /\ Len(ctx.currentPoints) < 1
        THEN /\ ctx' = [up EXCEPT !.currentPoints = <<>>]
             /\ UNCHANGED <<shape, shapes, undoHistory>>
        ELSE IF newShape # Null
        THEN /\ undoHistory' = Append(undoHistory, shapes)
             /\ shapes' = Append(shapes, newShape)
             /\ shape' = newShape
             /\ ctx' = [up EXCEPT !.activeTool = "select", !.startPoint = Null,
                                  !.currentPoints = <<>>]
        ELSE /\ ctx' = [up EXCEPT !.startPoint = Null]
             /\ UNCHANGED <<shape, shapes, undoHistory>>
     /\ UNCHANGED <<zoomLevel, canvasOffset>>

\* handleKeyDown with Delete or Backspace
KeyDelete ==
  /\ steps < MaxEvents
  /\ ~ctx.pressed
  /\ op' = "delete"
  /\ steps' = steps + 1
  /\ IF shape # Null
     THEN /\ undoHistory' = Append(undoHistory, shapes)
          /\ shapes' = removeById(shapes, shape.id)
          /\ shape' = Null
     ELSE UNCHANGED <<shape, shapes, undoHistory>>
  /\ UNCHANGED <<handle, point, ctx, zoomLevel, canvasOffset>>

\* handleKeyDown with Ctrl+Z
KeyUndo ==
  /\ steps < MaxEvents
  /\ ~ctx.pressed
  /\ op' = "undo"
  /\ steps' = steps + 1
  /\ IF Len(undoHistory) > 0
     THEN /\ shapes' = undoHistory[Len(undoHistory)]
          /\ undoHistory' = SubSeq(undoHistory, 1, Len(undoHistory) - 1)
          /\ shape' = Null
     ELSE UNCHANGED <<shape, shapes, undoHistory>>
  /\ UNCHANGED <<handle, point, ctx, zoomLevel, canvasOffset>>

\* the logical point of the i-th mouse position at zoom 1 and offset 0
LogicalAt(i) == [x |-> DragPointAt[i].x * Unit, y |-> DragPointAt[i].y * Unit]

\* the number of canvases SpecCanvas starts from
NumScenes == 2

\* canvases with two shapes drawn one after the other: a rectangle with a
\* circle on it, a stroke and a rectangle; the empty canvas is the third
SceneAt ==
  << << [id |-> "s1"] @@ createRectangle(LogicalAt(1), LogicalAt(3)),
        [id |-> "s2"] @@ createCircle(LogicalAt(2), LogicalAt(3)) >>,
     << [id |-> "s1"] @@ createPencil(<<LogicalAt(2), LogicalAt(3)>>),
        [id |-> "s2"] @@ createRectangle(LogicalAt(1), LogicalAt(2)) >>,
     << >> >>

\* after the mouse-up that added the last shape of the scene: the shape is
\* selected, the tool is select, and every mouse-up has pushed the shapes
\* before it
InitCanvas ==
  /\ \E i \in 1..NumScenes :
       /\ shapes = SceneAt[i]
       /\ undoHistory = [k \in 1..Len(SceneAt[i]) |-> SubSeq(SceneAt[i], 1, k - 1)]
       /\ shape = IF SceneAt[i] = <<>> THEN Null ELSE SceneAt[i][Len(SceneAt[i])]
  /\ handle = "null"
  /\ point = [x |-> 0, y |-> 0]
  /\ op = "create"
  /\ steps = 0
  /\ ctx = CtxIdle
  /\ zoomLevel = Unit
  /\ canvasOffset = ZeroOffset

NextCanvas ==
  \/ \E t \in {"select", "rectangle", "circle", "pencil"} : SelectTool(t)
  \/ \E css \in CssPoints : MouseDown(css)
  \/ \E css \in CssPoints : MouseMove(css)
  \/ \E css \in CssPoints : MouseUp(css)
  \/ KeyDelete
  \/ KeyUndo

SpecCanvas == InitCanvas /\ [][NextCanvas]_vars

(***************************************************************************)
(* SpecWheel: wheel events over the canvas (handleWheel), in exact         *)
(* arithmetic.  zoomLevel counts 1 / Unit, so that zoomFactor 0.05 is one  *)
(* unit; canvasOffset is an exact fraction of a pixel.  The variable point *)
(* is the position of the last wheel event in CSS pixels relative to the   *)
(* canvas (e.clientX - rect.left, e.clientY - rect.top).                   *)
(***************************************************************************)
\* the number of wheel events SpecWheel explores
MaxWheels == 3

\* const zoomFactor = 0.05
zoomFactor == Unit \div 20

\* Math.min(Math.max(zoomLevel + zoomDirection * zoomFactor, 0.1), 5)
newZoomOf(zoom, zoomDirection) ==
  Min(Max(zoom + zoomDirection * zoomFactor, Unit \div 10), 5 * Unit)

\* canvasOffset.x - (cursorX * (newZoom - zoomLevel)), with
\* cursorX = (e.clientX - rect.left) / zoomLevel; the same for y
newOffsetOf(css, zoom, newZoom, offset) ==
  LET cursorX == RatNorm(css.x * Unit, zoom)
      cursorY == RatNorm(css.y * Unit, zoom)
      dz == RatNorm(newZoom - zoom, Unit)
  IN [x |-> RatSub(offset.x, RatMul(cursorX, dz)),
      y |-> RatSub(offset.y, RatMul(cursorY, dz))]

\* handleWheel with deltaY < 0 (zoomDirection 1) or not (-1) at css
Wheel(zoomDirection, css) ==
  /\ steps < MaxWheels
  /\ LET newZoom == newZoomOf(zoomLevel, zoomDirection)
     IN IF newZoom # zoomLevel
        THEN /\ zoomLevel' = newZoom
             /\ canvasOffset' = newOffsetOf(css, zoomLevel, newZoom, canvasOffset)
        ELSE UNCHANGED <<zoomLevel, canvasOffset>>
  /\ point' = css
  /\ op' = "wheel"
  /\ steps' = steps + 1
  /\ UNCHANGED <<shape, handle, shapes, undoHistory, ctx>>

\* the zoom levels SpecWheel starts from: 0.1, 1 and 5.  Wheel events at the
\* origin of the canvas, where cursorX = cursorY = 0, lead from 1 to each of
\* them and leave the offset at (0, 0)
WheelStartZooms == {Unit \div 10, Unit, 5 * Unit}

InitWheel ==
  /\ shape = Null
  /\ handle = "null"
  /\ point = [x |-> 0, y |-> 0]
  /\ op = "create"
  /\ steps = 0
  /\ shapes = <<>>
  /\ undoHistory = <<>>
  /\ ctx = CtxIdle
  /\ zoomLevel \in WheelStartZooms
  /\ canvasOffset = ZeroOffset

NextWheel == \E zoomDirection \in {1, -1}, css \in CssPoints : Wheel(zoomDirection, css)

SpecWheel == InitWheel /\ [][NextWheel]_vars

(***************************************************************************)
(* SpecZoom: wheel events and clicks on the zoom buttons, with zoomLevel   *)
(* as the IEEE 754 double the program holds.  Here zoomLevel is a record   *)
(* [hi, lo] that stands for the double (hi * Limb + lo) * 2^-57: 2^-57 is  *)
(* the unit in the last place of 0.05, so 0.05, 0.1 and every sum and      *)
(* difference the handlers form are whole numbers of it.  The doubles from *)
(* 2^-4 * 2^k up to 2^-3 * 2^k are the multiples of 2^k of them, which is  *)
(* what Round rounds to.  The wheel events are at the origin of the        *)
(* canvas, where cursorX = cursorY = 0 and the new offset,                 *)
(* canvasOffset - 0 * (newZoom - zoomLevel), is canvasOffset.             *)
(***************************************************************************)
\* the number of events SpecZoom explores
MaxZoomEvents == 10

Limb == 2^30

\* the literals 0.05, 0.1, 1, 3 and 5 as doubles
Twentieth == [hi |-> 6710886, lo |-> 429496730]
Tenth     == [hi |-> 13421772, lo |-> 858993460]
One       == [hi |-> 2^27, lo |-> 0]
Three     == [hi |-> 3 * 2^27, lo |-> 0]
Five      == [hi |-> 5 * 2^27, lo |-> 0]

RECURSIVE UlpOf(_)
\* the distance between the doubles around a number whose upper part is hi:
\* 1 below 2^53 units (53 bits of mantissa), doubled in each binade above
UlpOf(hi) == IF hi < 2^23 THEN 1 ELSE 2 * UlpOf(hi \div 2)

\* round to nearest, ties to even: the result of one arithmetic operation
Round(hi, lo) ==
  LET u == UlpOf(hi)
      r == lo % u
      down == lo - r
      up == down + u
  IN IF 2 * r < u \/ (2 * r = u /\ (lo \div u) % 2 = 0)
     THEN [hi |-> hi, lo |-> down]
     ELSE IF up = Limb THEN [hi |-> hi + 1, lo |-> 0] ELSE [hi |-> hi, lo |-> up]

\* a + b
DoubleAdd(a, b) ==
  LET lo == a.lo + b.lo
  IN Round(a.hi + b.hi + lo \div Limb, lo % Limb)

\* a - b, for a >= b
DoubleSub(a, b) ==
  LET lo == a.lo - b.lo
  IN IF lo < 0 THEN Round(a.hi - b.hi - 1, lo + Limb) ELSE Round(a.hi - b.hi, lo)

\* a <= b
DoubleLeq(a, b) == a.hi < b.hi \/ (a.hi = b.hi /\ a.lo <= b.lo)

\* Math.min, Math.max
DoubleMin(a, b) == IF DoubleLeq(a, b) THEN a ELSE b
DoubleMax(a, b) == IF DoubleLeq(a, b) THEN b ELSE a

\* handleWheel's newZoom without the clamp
newZoomUnclamped(zoom, zoomDirection) ==
  IF zoomDirection = 1 THEN DoubleAdd(zoom, Twentieth) ELSE DoubleSub(zoom, Twentieth)

\* Math.min(Math.max(zoomLevel + zoomDirection * zoomFactor, 0.1), 5);
\* zoomDirection * zoomFactor is 0.05 or -0.05, without rounding
newZoom(zoom, zoomDirection) ==
  DoubleMin(DoubleMax(IF zoomDirection = 1 THEN DoubleAdd(zoom, Twentieth)
                                           ELSE DoubleSub(zoom, Twentieth),
                      Tenth),
            Five)

\* handleWheel with the cursor at the origin of the canvas
WheelAtOrigin(zoomDirection) ==
  /\ steps < MaxZoomEvents
  /\ LET z == newZoom(zoomLevel, zoomDirection)
     IN IF z # zoomLevel
        THEN /\ zoomLevel' = z
             /\ canvasOffset' = canvasOffset
        ELSE UNCHANGED <<zoomLevel, canvasOffset>>
  /\ op' = IF zoomDirection = 1 THEN "wheelUp" ELSE "wheelDown"
  /\ steps' = steps + 1
  /\ UNCHANGED <<shape, handle, point, shapes, undoHistory, ctx>>

\* setZoomLevel(prev => Math.min(prev + 0.1, 3))
handleZoomIn ==
  /\ steps < MaxZoomEvents
  /\ zoomLevel' = DoubleMin(DoubleAdd(zoomLevel, Tenth), Three)
  /\ op' = "zoomIn"
  /\ steps' = steps + 1
  /\ UNCHANGED <<shape, handle, point, shapes, undoHistory, ctx, canvasOffset>>

\* setZoomLevel(prev => Math.max(prev - 0.1, 0.1))
handleZoomOut ==
  /\ steps < MaxZoomEvents
  /\ zoomLevel' = DoubleMax(DoubleSub(zoomLevel, Tenth), Tenth)
  /\ op' = "zoomOut"
  /\ steps' = steps + 1
  /\ UNCHANGED <<shape, handle, point, shapes, undoHistory, ctx, canvasOffset>>

\* the zoom levels SpecZoom starts from: the initial 1 and the three bounds
\* of the clamps, which the clamps return as they are: wheel events lead
\* from 1 down to 0.1 and up to 5, clicks on the zoom-in button up to 3
ZoomStartLevels == {One, Tenth, Three, Five}

InitZoom ==
  /\ shape = Null
  /\ handle = "null"
  /\ point = [x |-> 0, y |-> 0]
  /\ op = "create"
  /\ steps = 0
  /\ shapes = <<>>
  /\ undoHistory = <<>>
  /\ ctx = CtxIdle
  /\ zoomLevel \in ZoomStartLevels
  /\ canvasOffset = ZeroOffset

NextZoom ==
  \/ \E zoomDirection \in {1, -1} : WheelAtOrigin(zoomDirection)
  \/ handleZoomIn
  \/ handleZoomOut

SpecZoom == InitZoom /\ [][NextZoom]_vars

(***************************************************************************)
(* Properties                                                              *)
(***************************************************************************)
LeftHandles == {"topLeft", "middleLeft", "bottomLeft"}
RightHandles == {"topRight", "middleRight", "bottomRight"}
TopHandles == {"topLeft", "topCenter", "topRight"}
BottomHandles == {"bottomLeft", "bottomCenter", "bottomRight"}

Pt(px, py) == [x |-> px * Unit, y |-> py * Unit]

\* from box a to box b the edges handle h does not drag stay where they were
KeepsFixedEdges(a, b, h) ==
  /\ h \in RightHandles => b.x = a.x
  /\ h \in LeftHandles => b.x + b.width = a.x + a.width
  /\ h \in BottomHandles => b.y = a.y
  /\ h \in TopHandles => b.y + b.height = a.y + a.height
  /\ h \in {"topCenter", "bottomCenter"} => b.x = a.x /\ b.width = a.width
  /\ h \in {"middleLeft", "middleRight"} => b.y = a.y /\ b.height = a.height

\* C1: every resizeShape call on a rectangle leaves the edges its handle does
\* not drag at their coordinates (bottomRight: x and y; topLeft: x+width and
\* y+height; topCenter/bottomCenter: also x and width; middleLeft/middleRight:
\* also y and height); holding at every step, it holds along every sequence of
\* calls with one handle.
C1_FixedEdges ==
  [][(shape.type = "rectangle" /\ op' = "resize")
       => KeepsFixedEdges(shape, shape', handle')]_vars

\* a second resize in a row has moved the left and top edges of the rectangle
\* drawn from (100,50) to (150,80) to (0,0); right and bottom edge are in place
C1_Witness ==
  /\ op = "resize" /\ steps = 2 /\ handle = "topLeft"
  /\ shape.type = "rectangle"
  /\ shape.x = 0 /\ shape.y = 0
  /\ shape.width = 150 * Unit /\ shape.height = 80 * Unit

\* the minimum size the code states for a shape: 10, or for a text
\* max(20, 2 * text length)
StatedMinimum(s) ==
  IF s.type = "text" THEN (IF Len(s.text) > 10 THEN 2 * Len(s.text) ELSE 20) * Unit
  ELSE 10 * Unit

CentreOf(c) == [x |-> c.x + c.radius, y |-> c.y + c.radius]

\* C3: resizeShape on a circle, with any handle and point, leaves the centre
\* (x+radius, y+radius) where it was; holding at every step, it holds after
\* any sequence of resizes.
C3_CentreFixed ==
  [][(shape.type = "circle" /\ op' = "resize") => CentreOf(shape') = CentreOf(shape)]_vars

\* two resizes in a row of the circle drawn around (100,50): the radius has
\* changed to the distance to (150,80), the centre is where it was
C3_Witness ==
  /\ op = "resize" /\ steps = 2 /\ shape.type = "circle"
  /\ point = Pt(150, 80)
  /\ CentreOf(shape) = Pt(100, 50)
  /\ shape.radius * shape.radius <= (50 * 50 + 30 * 30) * Unit * Unit
  /\ (shape.radius + 1) * (shape.radius + 1) > (50 * 50 + 30 * 30) * Unit * Unit

\* r is max(distance(p, c), 1): the distance rounded down to the resolution
\* of the model, and at least one unit
IsClampedDistance(r, p, c) ==
  LET d2 == (p.x - c.x) * (p.x - c.x) + (p.y - c.y) * (p.y - c.y)
  IN IF d2 <= Unit * Unit THEN r = Unit
     ELSE r * r <= d2 /\ d2 < (r + 1) * (r + 1)

\* C4: on a circle resizeShape gives the same result for all eight handles:
\* radius = max(distance(point, centre), 1), x = centre.x - radius,
\* y = centre.y - radius.
C4_CircleByDistance ==
  [][(shape.type = "circle" /\ op' = "resize")
       => /\ \A h \in Handles : resizeShape(shape, h, point') = shape'
          /\ IsClampedDistance(shape'.radius, point', CentreOf(shape))
          /\ shape'.x = CentreOf(shape).x - shape'.radius
          /\ shape'.y = CentreOf(shape).y - shape'.radius]_vars

\* the circle around (10,10) dragged to (10,40): radius 30, x = -20, y = -20
C4_Witness ==
  /\ op = "resize" /\ shape.type = "circle"
  /\ point = Pt(10, 40)
  /\ shape.radius = 30 * Unit /\ shape.x = -20 * Unit /\ shape.y = -20 * Unit

\* getResizeHandle at the position of every handle of s returns its name
RoundTrips(s) ==
  LET hs == getShapeResizeHandles(s)
  IN \A i \in 1..Len(hs) : getResizeHandle([x |-> hs[i].x, y |-> hs[i].y], s) = hs[i].name

\* C5 as stated: for every shape and every handle h of
\* getShapeResizeHandles(shape), getResizeHandle at h's position returns h.name.
C5_Original == RoundTrips(shape)

\* C5 amended: for every shape whose bounding box is more than 12 units wide
\* and more than 12 units high, getResizeHandle at the position of every
\* handle of getShapeResizeHandles(shape) returns that handle's name.
C5_RoundTripLargeBox ==
  LET box == getShapeBoundingBox(shape)
  IN (box.width > 12 * Unit /\ box.height > 12 * Unit) => RoundTrips(shape)

\* a resized rectangle 13 wide: the position of topRight is still outside the
\* hit region of topCenter
C5_Witness ==
  /\ op = "resize" /\ shape.type = "rectangle"
  /\ shape.width = 13 * Unit /\ shape.height > 12 * Unit
  /\ getResizeHandle([x |-> shape.x + shape.width, y |-> shape.y], shape) = "topRight"

\* the reference of the spec, per axis: x and width after handle h is dragged
\* to p with minimum size m
RefX(s, h, p, m) ==
  IF h \in LeftHandles
  THEN LET nx == Min(p.x, s.x + s.width - m) IN <<nx, s.x + s.width - nx>>
  ELSE IF h \in RightHandles THEN <<s.x, Max(p.x - s.x, m)>>
  ELSE <<s.x, s.width>>

RefY(s, h, p, m) ==
  IF h \in TopHandles
  THEN LET ny == Min(p.y, s.y + s.height - m) IN <<ny, s.y + s.height - ny>>
  ELSE IF h \in BottomHandles THEN <<s.y, Max(p.y - s.y, m)>>
  ELSE <<s.y, s.height>>

\* C6: the box resizeShape returns for a text is at least the minimum
\* container of the text at the new font size: width >= max(widest line +
\* 2 * 1.2 * fontSize, 80), height >= max(1.2 * fontSize * lines +
\* 2 * 0.8 * fontSize, 40); and it is at least the box of the geometric resize.
C6_TextMinimum ==
  [][(shape.type = "text" /\ op' = "resize")
       => LET f == shape'.fontSize
              lines == split(shape'.text)
          IN /\ \A i \in 1..Len(lines) :
                  10 * shape'.width >= 10 * measureText(OrSpace(lines[i]), f) + 24 * f * Unit
             /\ shape'.width >= 80 * Unit
             /\ 10 * shape'.height >= 12 * f * Len(lines) * Unit + 16 * f * Unit
             /\ shape'.height >= 40 * Unit
             /\ shape'.width >= RefX(shape, handle', point', StatedMinimum(shape))[2]
             /\ shape'.height >= RefY(shape, handle', point', StatedMinimum(shape))[2]]_vars

\* a text dragged down by bottomCenter: the font has grown and the box is
\* wider than the geometric resize left it, as wide as the text needs
C6_Witness ==
  /\ op = "resize" /\ shape.type = "text" /\ handle = "bottomCenter"
  /\ shape.fontSize > 16
  /\ 10 * shape.width = 10 * measureText(shape.text, shape.fontSize) + 24 * shape.fontSize * Unit
  /\ shape.width > 80 * Unit

\* C7: resizeShape(resizeShape(s, h, p), h, p) = resizeShape(s, h, p) in every
\* field, for every shape, handle and point.
C7_Idempotent == op = "resize" => resizeShape(shape, handle, point) = shape

\* C8: for every shape reachable from the factories by resizes and moves the
\* bounding box has width >= 0 and height >= 0.
C8_BoxNonNegative ==
  LET box == getShapeBoundingBox(shape) IN box.width >= 0 /\ box.height >= 0

\* a rectangle resized to the minimum and then moved
C8_Witness ==
  /\ op = "move" /\ steps = 2 /\ shape.type = "rectangle"
  /\ getShapeBoundingBox(shape).width = 10 * Unit
  /\ getShapeBoundingBox(shape).height = 10 * Unit

\* C9: on a rectangle resizeShape is the per-handle reference with MIN = 10:
\* left/top handles x = min(point.x, fixedRight - MIN), width = fixedRight - x;
\* right/bottom handles width = max(point.x - fixedLeft, MIN); the other
\* fields are those of the current shape.
C9_RectangleReference ==
  [][(shape.type = "rectangle" /\ op' = "resize")
       => shape' = [shape EXCEPT !.x = RefX(shape, handle', point', 10 * Unit)[1],
                                 !.width = RefX(shape, handle', point', 10 * Unit)[2],
                                 !.y = RefY(shape, handle', point', 10 * Unit)[1],
                                 !.height = RefY(shape, handle', point', 10 * Unit)[2]]]_vars

\* {x:0, y:0, width:100, height:50} via bottomRight to (150,80)
C9_Witness ==
  /\ op = "resize" /\ handle = "bottomRight" /\ point = Pt(150, 80)
  /\ shape.type = "rectangle"
  /\ shape.x = 0 /\ shape.y = 0 /\ shape.width = 150 * Unit /\ shape.height = 80 * Unit

\* the points the hit test is probed with
ProbePoints == PointSet \cup {Pt(5, 5), Pt(11, 5)}

\* C10: for a rectangle or text isPointInShape(p, shape) is true exactly when
\* x <= p.x <= x+width and y <= p.y <= y+height.
C10_BoxHitTest ==
  shape.type \in {"rectangle", "text"}
    => \A p \in ProbePoints :
         isPointInShape(p, shape)
           <=> (p.x \in shape.x..(shape.x + shape.width)
                /\ p.y \in shape.y..(shape.y + shape.height))

\* the box 0,0,10,10: (5,5) and the corner (10,10) are inside, (11,5) is not
C10_Witness ==
  /\ shape.type = "rectangle"
  /\ shape.x = 0 /\ shape.y = 0 /\ shape.width = 10 * Unit /\ shape.height = 10 * Unit
  /\ isPointInShape(Pt(5, 5), shape)
  /\ isPointInShape(Pt(10, 10), shape)
  /\ ~isPointInShape(Pt(11, 5), shape)

\* C11: for a circle {x, y, radius} isPointInShape(p, shape) is true exactly
\* when the distance from p to the centre (x+radius, y+radius) is <= radius;
\* points on the circumference are inside.
C11_CircleHitTest ==
  (shape.type = "circle" /\ Has(shape, "x") /\ Has(shape, "y") /\ Has(shape, "radius"))
    => \A p \in ProbePoints :
         isPointInShape(p, shape)
           <=> (p.x - (shape.x + shape.radius)) * (p.x - (shape.x + shape.radius))
                 + (p.y - (shape.y + shape.radius)) * (p.y - (shape.y + shape.radius))
               <= shape.radius * shape.radius

\* the circle of radius 10 around (0,0): the centre and (10,0) on the
\* circumference are inside, (10,10) is outside
C11_Witness ==
  /\ shape.type = "circle" /\ shape.radius = 10 * Unit
  /\ shape.x = -10 * Unit /\ shape.y = -10 * Unit
  /\ isPointInShape(Pt(0, 0), shape)
  /\ isPointInShape(Pt(10, 0), shape)
  /\ ~isPointInShape(Pt(10, 10), shape)

\* the points the pencil hit test is probed with
PencilProbes ==
  DragPoints \cup {Pt(5, 2), Pt(5, 10), Pt(15, 0), Pt(16, 0), Pt(10, 10), Pt(100, 0), Pt(13, 40)}

\* the distance from p to the segment a b is at most 5, in whole units and
\* on the squares: the nearest point is a, b or the foot of the perpendicular;
\* for a = b it is a
Within5(p, a, b) ==
  LET px == p.x \div Unit   py == p.y \div Unit
      ax == a.x \div Unit   ay == a.y \div Unit
      bx == b.x \div Unit   by == b.y \div Unit
      len2 == (bx - ax) * (bx - ax) + (by - ay) * (by - ay)
      dot == (px - ax) * (bx - ax) + (py - ay) * (by - ay)
      cross == (px - ax) * (by - ay) - (py - ay) * (bx - ax)
  IN IF dot <= 0 THEN (px - ax) * (px - ax) + (py - ay) * (py - ay) <= 25
     ELSE IF dot >= len2 THEN (px - bx) * (px - bx) + (py - by) * (py - by) <= 25
     ELSE cross * cross <= 25 * len2

\* C12 as stated: a pencil stroke is hit exactly when the point is within 5
\* units of at least one segment between consecutive points, and never for a
\* stroke of zero or one point.
C12_Original ==
  (shape.type = "pencil")
    => \A p \in PencilProbes :
         isPointInShape(p, shape)
           <=> \E i \in 1..(Len(shape.points) - 1) :
                 Within5(p, shape.points[i], shape.points[i + 1])

\* C12 amended: a pencil stroke is hit exactly when the point is within 5
\* units of at least one segment of non-zero length between consecutive
\* points (a segment whose ends coincide is skipped), and never for a stroke
\* of zero or one point.
C12_PencilHitTest ==
  (shape.type = "pencil")
    => \A p \in PencilProbes :
         isPointInShape(p, shape)
           <=> \E i \in 1..(Len(shape.points) - 1) :
                 /\ shape.points[i] # shape.points[i + 1]
                 /\ Within5(p, shape.points[i], shape.points[i + 1])

\* the stroke (0,0) (10,0): (5,2) is hit at distance 2, (15,0) at distance 5
\* from the end, (5,10) and (16,0) are not
C12_Witness ==
  /\ shape.type = "pencil"
  /\ shape.points = <<Pt(0, 0), Pt(10, 0)>>
  /\ isPointInShape(Pt(5, 2), shape)
  /\ isPointInShape(Pt(15, 0), shape)
  /\ ~isPointInShape(Pt(5, 10), shape)
  /\ ~isPointInShape(Pt(16, 0), shape)

\* the least and the greatest element of a non-empty set of integers
MinOfSet(S) == CHOOSE m \in S : \A n \in S : m <= n
MaxOfSet(S) == CHOOSE m \in S : \A n \in S : m >= n

\* the box enclosing the points of a stroke
EnclosingBox(points) ==
  LET xs == {points[i].x : i \in 1..Len(points)}
      ys == {points[i].y : i \in 1..Len(points)}
  IN [x |-> MinOfSet(xs), y |-> MinOfSet(ys),
      width |-> MaxOfSet(xs) - MinOfSet(xs), height |-> MaxOfSet(ys) - MinOfSet(ys)]

\* C13: for a pencil stroke with at least one point getShapeBoundingBox
\* returns the axis-aligned box enclosing all its points: x = min x,
\* y = min y, width = max x - min x, height = max y - min y.
C13_PencilEnclosingBox ==
  (shape.type = "pencil" /\ Len(shape.points) >= 1)
    => getShapeBoundingBox(shape) = EnclosingBox(shape.points)

\* C14: getShapeBoundingBox returns the shape's own x, y, width, height for a
\* rectangle or text, and for a circle the box {x, y, 2*radius, 2*radius}
\* anchored at the top left, whose centre is getCircleCenter(circle).
C14_BoxOfShape ==
  LET box == getShapeBoundingBox(shape)
  IN /\ shape.type \in {"rectangle", "text"}
          => box = [x |-> shape.x, y |-> shape.y,
                    width |-> shape.width, height |-> shape.height]
     /\ shape.type = "circle"
          => /\ box = [x |-> shape.x, y |-> shape.y,
                       width |-> 2 * shape.radius, height |-> 2 * shape.radius]
             /\ getCircleCenter(shape) = [x |-> box.x + box.width \div 2,
                                          y |-> box.y + box.height \div 2]

\* the circle {0, 0, radius 10} resized to radius 30: its box is
\* {-20, -20, 60, 60} around the centre (10, 10)
C14_Witness ==
  /\ op = "resize" /\ shape.type = "circle"
  /\ getShapeBoundingBox(shape)
       = [x |-> -20 * Unit, y |-> -20 * Unit, width |-> 60 * Unit, height |-> 60 * Unit]
  /\ getCircleCenter(shape) = Pt(10, 10)

\* the zero box {x:0, y:0, width:0, height:0}
ZeroBox == [x |-> 0, y |-> 0, width |-> 0, height |-> 0]

\* C15: called with a null shape, at any point and with any handle,
\* isPointInShape returns false, getShapeBoundingBox returns the zero box,
\* getResizeHandle returns null and resizeShape returns the null argument.
C15_NullShape ==
  shape = Null
    => /\ isPointInShape(point, shape) = FALSE
       /\ getShapeBoundingBox(shape) = ZeroBox
       /\ getResizeHandle(point, shape) = "null"
       /\ \A h \in Handles : resizeShape(shape, h, point) = shape

\* the variants isPointInShape knows
SupportedTypes == {"rectangle", "circle", "triangle", "pencil", "text"}

\* C16 as stated: for a shape of none of the supported types isPointInShape
\* returns false and getShapeBoundingBox returns the zero box, whatever
\* other fields the shape carries.
C16_Original ==
  (shape # Null /\ shape.type \notin SupportedTypes)
    => /\ ~isPointInShape(point, shape)
       /\ getShapeBoundingBox(shape) = ZeroBox

\* C16 amended: for a shape of none of the supported types isPointInShape
\* returns false and getShapeBoundingBox returns the shape's own x, y, width
\* and height, each 0 when the shape does not carry it: the zero box only
\* for a shape that carries none of them.
C16_UnknownVariant ==
  (shape # Null /\ shape.type \notin SupportedTypes)
    => /\ ~isPointInShape(point, shape)
       /\ getShapeBoundingBox(shape)
            = [f \in {"x", "y", "width", "height"} |->
                 IF f \in DOMAIN shape THEN shape[f] ELSE 0]

\* an ellipse that carries x = 10 and no width, probed at (10, 40): not hit,
\* and its box keeps x = 10 with width 0
C16_Witness ==
  /\ op = "probe" /\ point = Pt(10, 40)
  /\ shape.type = "ellipse" /\ Has(shape, "x") /\ shape.x = 10 * Unit
  /\ ~Has(shape, "width")
  /\ ~isPointInShape(point, shape)
  /\ getShapeBoundingBox(shape).x = 10 * Unit
  /\ getShapeBoundingBox(shape).width = 0

\* the four corner handles
CornerHandles == {"topLeft", "topRight", "bottomLeft", "bottomRight"}

\* where the handle of a name lies on a box: on the left edge, the right edge
\* or half way, and the same from top to bottom
OnBoxX(name, box) ==
  IF name \in LeftHandles THEN box.x
  ELSE IF name \in RightHandles THEN box.x + box.width
  ELSE box.x + box.width \div 2

OnBoxY(name, box) ==
  IF name \in TopHandles THEN box.y
  ELSE IF name \in BottomHandles THEN box.y + box.height
  ELSE box.y + box.height \div 2

\* C17: for every shape getShapeResizeHandles returns exactly 8 entries, one
\* for each handle name, at the corners and edge midpoints of
\* getShapeBoundingBox(shape), the four corners before the four midpoints,
\* always in the same order.
C17_EightHandles ==
  LET hs == getShapeResizeHandles(shape)
      box == getShapeBoundingBox(shape)
  IN /\ Len(hs) = 8
     /\ {hs[i].name : i \in 1..Len(hs)} = Handles
     /\ \A i \in 1..Len(hs) :
          /\ hs[i].x = OnBoxX(hs[i].name, box)
          /\ hs[i].y = OnBoxY(hs[i].name, box)
          /\ (i <= 4) <=> (hs[i].name \in CornerHandles)
     /\ [i \in 1..Len(hs) |-> hs[i].name]
          = <<"topLeft", "topRight", "bottomLeft", "bottomRight",
              "topCenter", "middleRight", "bottomCenter", "middleLeft">>

\* a moved circle: the fifth handle is topCenter, above the centre, after the
\* four corners
C17_Witness ==
  /\ op = "move" /\ shape.type = "circle"
  /\ getShapeResizeHandles(shape)[4].name = "bottomRight"
  /\ getShapeResizeHandles(shape)[5]
       = [name |-> "topCenter", x |-> shape.x + shape.radius, y |-> shape.y]

\* the centre of the hit region of a handle: its place on the box moved 5
\* units outward
RegionX(name, box) ==
  OnBoxX(name, box) + (IF name \in LeftHandles THEN -5 * Unit
                       ELSE IF name \in RightHandles THEN 5 * Unit ELSE 0)

RegionY(name, box) ==
  OnBoxY(name, box) + (IF name \in TopHandles THEN -5 * Unit
                       ELSE IF name \in BottomHandles THEN 5 * Unit ELSE 0)

\* the region centres of the eight handles of a box
RegionCentres(box) ==
  [n \in Handles |-> [x |-> RegionX(n, box), y |-> RegionY(n, box)]]

\* p is in the 12-unit square around the centre c
InRegion(p, c) ==
  /\ 2 * Abs(p.x - c.x) <= 12 * Unit
  /\ 2 * Abs(p.y - c.y) <= 12 * Unit

\* the name of the first handle of the sequence order whose region contains
\* p, "null" when there is none
FirstHit(order, p, centres) ==
  LET hit == {i \in 1..Len(order) : InRegion(p, centres[order[i]])}
  IN IF hit = {} THEN "null" ELSE order[CHOOSE i \in hit : \A j \in hit : i <= j]

\* C18 as stated: getResizeHandle returns the first handle, in the order
\* corners first and then edges, whose 12-unit region 5 units outside the box
\* contains the point, and null when none does.
C18_Original ==
  op = "probe"
    => getResizeHandle(point, shape)
         = FirstHit(<<"topLeft", "topRight", "bottomLeft", "bottomRight",
                      "topCenter", "middleRight", "bottomCenter", "middleLeft">>,
                    point, RegionCentres(getShapeBoundingBox(shape)))

\* C18 amended: getResizeHandle returns the first handle, in the order
\* topLeft, topCenter, topRight, middleLeft, middleRight, bottomLeft,
\* bottomCenter, bottomRight, whose 12-unit region 5 units outside the box
\* contains the point, and null when none does; where regions overlap the
\* earlier handle of this order wins.
C18_FirstInRowOrder ==
  op = "probe"
    => getResizeHandle(point, shape)
         = FirstHit(<<"topLeft", "topCenter", "topRight", "middleLeft",
                      "middleRight", "bottomLeft", "bottomCenter", "bottomRight">>,
                    point, RegionCentres(getShapeBoundingBox(shape)))

\* the 1x1 rectangle at (0,0): the centre of topRight's region, (6,-5), is
\* also in topCenter's region and topCenter is returned; 7 units further
\* right no region is hit
C18_Witness ==
  /\ shape.type = "rectangle" /\ shape.x = 0 /\ shape.y = 0
  /\ shape.width = 1 * Unit /\ shape.height = 1 * Unit
  /\ op = "probe" /\ point = Pt(6, -5)
  /\ InRegion(Pt(6, -5), RegionCentres(getShapeBoundingBox(shape))["topRight"])
  /\ getResizeHandle(Pt(6, -5), shape) = "topCenter"
  /\ getResizeHandle(Pt(13, -5), shape) = "null"

\* Math.round(oldFontSize * (0.5 + 0.5 * (nw/ow + nh/oh) / 2)): four times
\* the product is 2*old + old*nw/ow + old*nh/oh; the two quotients are split
\* into whole part and remainder, and the remainders carry 1 when their sum
\* reaches 1
RoundedFont(old, nw, ow, nh, oh) ==
  LET carry == IF ((old * nw) % ow) * oh + ((old * nh) % oh) * ow >= ow * oh THEN 1 ELSE 0
  IN (2 * old + 2 + (old * nw) \div ow + (old * nh) \div oh + carry) \div 4

\* C19: for a text resizeShape sets fontSize = clamp(round(oldFontSize *
\* (0.5 + 0.5 * rawScale)), 8, 200) with rawScale = (newWidth/oldWidth +
\* newHeight/oldHeight)/2, newWidth and newHeight those of the geometric
\* resize before the text minimum is applied; so 8 <= fontSize <= 200.
C19_FontSize ==
  [][(shape # Null /\ shape.type = "text" /\ op' = "resize")
       => LET nw == RefX(shape, handle', point', StatedMinimum(shape))[2]
              nh == RefY(shape, handle', point', StatedMinimum(shape))[2]
              r == RoundedFont(shape.fontSize, nw, shape.width, nh, shape.height)
          IN /\ shape'.fontSize = (IF r < 8 THEN 8 ELSE IF r > 200 THEN 200 ELSE r)
             /\ shape'.fontSize >= 8 /\ shape'.fontSize <= 200]_vars

\* the text of font size 190 enlarged by bottomRight: 190 * 1.09 is cut to 200
C19_Witness ==
  /\ op = "resize" /\ shape # Null /\ shape.type = "text"
  /\ handle = "bottomRight" /\ point = Pt(150, 80)
  /\ shape.fontSize = 200

\* C20: resizeShape never mutates its input: after the call the input object
\* has every field as before; and the returned shape has the id, type and
\* color of the input, for every variant, handle and point.
C20_InputUnchanged ==
  [][(op' = "resize")
       => LET call == resizeShapeOnHeap(("input" :> shape), "input", handle', point')
          IN /\ call.heap["input"] = shape
             /\ call.heap[call.ref] = shape'
             /\ shape'.id = shape.id
             /\ shape'.type = shape.type
             /\ shape'.color = shape.color]_vars

\* a text resized a second time: the call returns a new object that differs
\* from its input, which is as it was
C20_Witness ==
  LET call == resizeShapeOnHeap(("input" :> shape), "input", handle, point)
  IN /\ op = "resize" /\ steps = 2 /\ shape.type = "text"
     /\ call.ref = "resized"
     /\ call.heap["resized"] # shape
     /\ call.heap["resized"].id = shape.id
     /\ call.heap["input"] = shape

\* a triangle of zero area
ZeroArea(tri) == tri.startX = tri.endX \/ tri.startY = tri.endY

\* C21 as stated: isPointInShape never divides by zero: a zero-length pencil
\* segment is skipped, and a zero-area triangle is skipped with result false,
\* so that no NaN or infinite value enters the comparison.
C21_Original ==
  /\ shape.type = "pencil"
       => \A p \in ProbePoints : \A i \in 1..(Len(shape.points) - 1) :
            shape.points[i] = shape.points[i + 1]
              => ~NearSegment(p, shape.points[i], shape.points[i + 1], 5 * Unit)
  /\ shape.type = "triangle"
       => \A p \in ProbePoints :
            LET b == barycentric(p, shape)
            IN /\ ZeroArea(shape) => ~isPointInShape(p, shape)
               /\ b.s.kind = "finite" /\ b.t.kind = "finite" /\ b.u.kind = "finite"

\* C21 amended: on degenerate geometry isPointInShape returns false and does
\* not raise: a zero-length pencil segment is skipped before the division; a
\* zero-area triangle is not skipped: the code divides by zero, s and t are
\* infinite or NaN, and the comparison s >= 0 && t >= 0 && u >= 0 is false
\* for every point.
C21_DegenerateIsFalse ==
  /\ shape.type = "pencil"
       => \A p \in ProbePoints : \A i \in 1..(Len(shape.points) - 1) :
            shape.points[i] = shape.points[i + 1]
              => ~NearSegment(p, shape.points[i], shape.points[i + 1], 5 * Unit)
  /\ (shape.type = "triangle" /\ ZeroArea(shape))
       => \A p \in ProbePoints :
            LET b == barycentric(p, shape)
            IN /\ ~isPointInShape(p, shape)
               /\ b.s.kind # "finite" /\ b.t.kind # "finite" /\ b.u.kind # "finite"

\* the triangle from (0,0) to (0,0) probed at (10,10): s, t and u are NaN and
\* the point is not hit
C21_Witness ==
  /\ op = "probe" /\ point = Pt(10, 10)
  /\ shape.type = "triangle" /\ shape.startX = 0 /\ shape.startY = 0
  /\ shape.endX = 0 /\ shape.endY = 0
  /\ barycentric(point, shape).s.kind = "NaN"
  /\ barycentric(point, shape).u.kind = "NaN"
  /\ ~isPointInShape(point, shape)

\* C23: every resizeShape call on a text leaves the edges its handle does not
\* drag at their coordinates (topLeft: x+width and y+height; bottomRight: x
\* and y; topCenter/bottomCenter: also x and width; middleLeft/middleRight:
\* also y and height), also when the text is enlarged to its minimum size.
C23_TextFixedEdges ==
  [][(shape.type = "text" /\ op' = "resize")
       => KeepsFixedEdges(shape, shape', handle')]_vars


\* the side of the line a b the point p is on: the cross product (b-a) x (p-a)
SideOf(a, b, p) == (b.x - a.x) * (p.y - a.y) - (b.y - a.y) * (p.x - a.x)

\* p is inside or on the boundary of the triangle p1 p2 p3 of tri, whatever
\* the orientation of the vertices: p is not strictly left of one side and
\* strictly right of another
InsideOrOnTriangle(p, tri) ==
  LET p1 == [x |-> tri.startX, y |-> tri.startY]
      p2 == [x |-> tri.endX, y |-> tri.endY]
      p3 == [x |-> tri.startX - (tri.endX - tri.startX), y |-> tri.endY]
      d == {SideOf(p1, p2, p), SideOf(p2, p3, p), SideOf(p3, p1, p)}
  IN ~((\E v \in d : v < 0) /\ (\E v \in d : v > 0))

\* C24: for every triangle of non-zero area, whatever the direction of the
\* drag from start to end, isPointInShape is true exactly for the points
\* inside or on the boundary of the triangle p1 p2 p3.
C24_TriangleHitTest ==
  (op = "probe" /\ shape.type = "triangle" /\ ~ZeroArea(shape))
    => (isPointInShape(point, shape) <=> InsideOrOnTriangle(point, shape))


\* the square of the distance from the point to the centre of circle c
SquaredDistanceToCentre(p, c) ==
  (p.x - CentreOf(c).x) * (p.x - CentreOf(c).x)
    + (p.y - CentreOf(c).y) * (p.y - CentreOf(c).y)

\* C25 as stated: after resizeShape on a circle, with any handle and point,
\* the radius is at least 10.
C25_Original ==
  (op = "resize" /\ shape.type = "circle") => shape.radius >= 10 * Unit

\* C25 amended: after resizeShape on a circle, with any handle and point, the
\* radius is at least 1 (never zero or negative); the minimum of 10 is not
\* applied: a point less than 10 from the centre gives a radius below 10,
\* and a point within 1 of the centre gives the radius 1.
C25_RadiusAtLeastOne ==
  (op = "resize" /\ shape.type = "circle")
    => /\ shape.radius >= 1 * Unit
       /\ SquaredDistanceToCentre(point, shape) < 100 * Unit * Unit
            => shape.radius < 10 * Unit
       /\ SquaredDistanceToCentre(point, shape) <= Unit * Unit
            => shape.radius = 1 * Unit

\* a circle resized with the point at its centre (100,50) has radius 1
C25_Witness ==
  /\ op = "resize" /\ shape.type = "circle"
  /\ point = Pt(100, 50) /\ CentreOf(shape) = point
  /\ shape.radius = 1 * Unit


\* the shape latest in the sequence shs that contains p, Null if none does
LastShapeUnderPoint(p, shs) ==
  LET hit == {i \in 1..Len(shs) : isPointInShape(p, shs[i])}
  IN IF hit = {} THEN Null ELSE shs[CHOOSE i \in hit : \A j \in hit : j <= i]

\* C22: the shape a mouse-down selects for a move drag is the one latest in
\* the shapes sequence among the shapes that contain the click point: the one
\* drawn on top.
C22_TopmostIsHit ==
  (op = "mousedown" /\ ctx.isMovingShape)
    => shape = LastShapeUnderPoint(point, shapes)


\* the last entry of a nonempty sequence
Last(q) == q[Len(q)]

\* a mouse-up is about to end a resize or move drag
DragEnds ==
  /\ ctx.pressed /\ ctx.activeTool = "select" /\ ctx.isDragging
  /\ ctx.originalShapePos # Null
  /\ handle # "null" \/ ctx.isMovingShape

\* the shapes as they were at the mouse-down of the drag: the shapes with the
\* dragged shape as the snapshot taken at the mouse-down has it
BeforeDrag == replaceById(shapes, ctx.originalShapePos.id, ctx.originalShapePos)

\* C27: Ctrl+Z right after a completed gesture that changed the shapes (a new
\* shape drawn, the selected shape deleted, a resize drag, a move drag) sets
\* the shapes back to their value before the gesture, removes one entry of
\* the undo history and clears the selection; with an empty history it
\* changes nothing.  In steps: Ctrl+Z pops the last entry into shapes, and at
\* the end of every such gesture the last entry is the shapes before it.
C27_UndoRestores ==
  [][/\ op' = "undo"
          => IF undoHistory = <<>>
             THEN UNCHANGED <<shapes, undoHistory, shape>>
             ELSE /\ shapes' = Last(undoHistory)
                  /\ undoHistory' = SubSeq(undoHistory, 1, Len(undoHistory) - 1)
                  /\ shape' = Null
     /\ (op' \in {"mouseup", "delete"} /\ shapes' # shapes)
          => undoHistory' = Append(undoHistory, shapes)
     /\ (op' = "mouseup" /\ DragEnds /\ shapes # BeforeDrag)
          => undoHistory' # <<>> /\ Last(undoHistory') = BeforeDrag]_vars

\* the selected shape is being resized by a handle
ResizeDrag ==
  /\ ctx.pressed /\ ctx.activeTool = "select" /\ ctx.isDragging
  /\ shape # Null /\ handle # "null"

\* C28: in a resize drag one snapshot is appended to the undo history, at the
\* first mouse-move, and it is the shapes as they were before the drag: the
\* mouse-down changes neither the shapes nor the history, the first move
\* appends the shapes, every later move and the mouse-up leave the history as
\* it is; the first move of a later resize drag appends again.
C28_OneSnapshotPerResize ==
  [][/\ op' = "mousedown" => UNCHANGED <<shapes, undoHistory>>
     /\ (ResizeDrag /\ op = "mousedown" /\ op' = "mousemove")
          => undoHistory' = Append(undoHistory, shapes)
     /\ (ResizeDrag /\ op = "mousemove" /\ op' = "mousemove")
          => undoHistory' = undoHistory
     /\ (ResizeDrag /\ op' = "mouseup")
          => undoHistory' = undoHistory]_vars

\* the first move of a second resize drag of the rectangle of the second
\* canvas has appended a second snapshot, which holds the rectangle as the
\* first drag left it
C28_Witness ==
  /\ op = "mousemove" /\ ResizeDrag /\ steps = 5
  /\ shape.type = "rectangle" /\ shape.id = "s2"
  /\ Len(undoHistory) = 4
  /\ undoHistory[3][2] # undoHistory[4][2]
  /\ undoHistory[4][2] # shape

\* shape o moved by (dx, dy): a stroke point by point, another shape by x, y
Translated(o, dx, dy) ==
  IF o.type = "pencil"
  THEN [o EXCEPT !.points = [i \in 1..Len(o.points) |->
                               [x |-> o.points[i].x + dx, y |-> o.points[i].y + dy]]]
  ELSE [o EXCEPT !.x = o.x + dx, !.y = o.y + dy]

\* the selected shape is being moved
MoveDrag ==
  /\ ctx.pressed /\ ctx.activeTool = "select" /\ ctx.isDragging
  /\ ctx.isMovingShape /\ shape # Null /\ handle = "null"

\* C29: every mouse-move of a move drag leaves the selected shape as the
\* drag-start snapshot translated by point - dragStart (a stroke point by
\* point), with every other field as in the snapshot; the other shapes and
\* the order of the sequence stay as they are; with the pointer back at
\* dragStart the shape is the snapshot again.
C29_MoveFromSnapshot ==
  [][(MoveDrag /\ op' = "mousemove")
       => LET o == ctx.originalShapePos
              moved == Translated(o, point'.x - ctx.dragStart.x, point'.y - ctx.dragStart.y)
          IN /\ shape' = moved
             /\ Len(shapes') = Len(shapes)
             /\ \A i \in 1..Len(shapes) :
                  shapes'[i] = IF shapes[i].id = o.id THEN moved ELSE shapes[i]
             /\ point' = ctx.dragStart => shape' = o]_vars

\* the rectangle of the first canvas, clicked at (100,50) and dragged to
\* (0,0) and on to (150,80), is at (50,30) with its size, the circle is where
\* it was
C29_Witness ==
  /\ op = "mousemove" /\ MoveDrag /\ steps = 3
  /\ ctx.dragStart = Pt(100, 50) /\ point = Pt(150, 80)
  /\ shape.type = "rectangle" /\ shape.x = 50 * Unit /\ shape.y = 30 * Unit
  /\ shape.width = 150 * Unit /\ shape.height = 80 * Unit
  /\ shapes[1] = shape /\ shapes[2] = SceneAt[1][2]

\* C26: a wheel zoom is centred on the cursor: whenever handleWheel changes
\* zoomLevel and canvasOffset, the logical canvas point under the cursor,
\* (cssX / zoom - offset.x, cssY / zoom - offset.y), is the same before and
\* after the event.
C26_WheelKeepsCursorPoint ==
  [][(op' = "wheel" /\ zoomLevel' # zoomLevel) =>
       getCanvasCoordinates(point', zoomLevel', canvasOffset')
         = getCanvasCoordinates(point', zoomLevel, canvasOffset)]_vars

\* 0.1 <= zoomLevel <= 5
ZoomInRange == DoubleLeq(Tenth, zoomLevel) /\ DoubleLeq(zoomLevel, Five)

\* zoomLevel - 0.05 < 0.1, zoomLevel + 0.05 > 5
BelowRange == ~DoubleLeq(Tenth, DoubleSub(zoomLevel, Twentieth))
AboveRange == ~DoubleLeq(DoubleAdd(zoomLevel, Twentieth), Five)

\* C30 as stated: starting from 1, wheel events and clicks on the zoom
\* buttons keep 0.1 <= zoomLevel <= 5, and a wheel event whose step would
\* leave the range changes neither zoomLevel nor canvasOffset.
C30_Original ==
  /\ []ZoomInRange
  /\ [][/\ (op' = "wheelDown" /\ BelowRange) => UNCHANGED <<zoomLevel, canvasOffset>>
        /\ (op' = "wheelUp" /\ AboveRange) => UNCHANGED <<zoomLevel, canvasOffset>>]_vars

\* C30: starting from 1, wheel events and clicks on the zoom buttons keep
\* 0.1 <= zoomLevel <= 5.  A wheel event whose step would leave the range
\* sets zoomLevel to the bound it would cross: it changes neither zoomLevel
\* nor canvasOffset when zoomLevel is the bound itself, 0.1 or 5, and it
\* moves zoomLevel to the bound when zoomLevel is less than 0.05 away from it.
C30_ZoomStaysInRange ==
  /\ []ZoomInRange
  /\ [][/\ (op' = "wheelDown" /\ BelowRange) => zoomLevel' = Tenth
        /\ (op' = "wheelUp" /\ AboveRange) => zoomLevel' = Five
        /\ (op' = "wheelDown" /\ zoomLevel = Tenth) => UNCHANGED <<zoomLevel, canvasOffset>>
        /\ (op' = "wheelUp" /\ zoomLevel = Five) => UNCHANGED <<zoomLevel, canvasOffset>>]_vars

\* a wheel event down at zoom level 0.1 has left the zoom level and the offset
C30_Witness ==
  /\ op = "wheelDown"
  /\ steps = 1
  /\ zoomLevel = Tenth
  /\ canvasOffset = ZeroOffset

====
